---- MODULE Spec2Model ----
(***************************************************************************)
(* Document harvesting pipeline of the procurement dashboard:              *)
(* EmailParsingAgent (src/email_parsing_agent.py) with its attachment      *)
(* store, its per-identifier summary store and its two harvest modes.      *)
(*                                                                         *)
(* Strings that the code inspects character by character (subjects,        *)
(* identifiers) are sequences of one-character strings; strings that are   *)
(* only compared for equality (file names, senders) are TLA+ strings.      *)
(***************************************************************************)
EXTENDS Integers, Sequences, FiniteSets, TLC

\* ------------------------------------------------------------------ bounds
\* Number of distinct attachment byte strings.
NumContents == 3
\* Last value of the wall clock (seconds); the clock starts at 1.
MaxClock == 2
\* Number of top-level harvest calls in one behaviour.
MaxCalls == 2
\* Number of failures (a failed disk write, a failed extraction, a dropped
\* connection) the environment injects in one behaviour.
MaxFaults == 1
\* Number of distinct digests. A digest has 128 bits and the byte strings are
\* unbounded, so there are fewer digests than contents.
NumDigests == 2

\* ------------------------------------------------------------ value spaces
Contents == 1..NumContents
\* "no file" where a content is expected
NoFile == 0

\* Identifier "7" (digits are what (\d+) captures).
Id7 == <<"7">>
\* The bucket name scan_all_emails passes for messages without identifier.
UnknownId == <<"u", "n", "k", "n", "o", "w", "n">>

\* A stored path <by_indent_path>/indent_<bucket>/[<ts>_]<fn>; ts = 0 is the
\* exact (unprefixed) file name, ts > 0 the strftime("%Y%m%d_%H%M%S") prefix
\* of clock second ts.
Path(bucket, ts, fn) == [bucket |-> bucket, ts |-> ts, fn |-> fn]
NoPath == Path(<<>>, -1, "")

\* hashlib.md5(content).hexdigest(): a function from the contents onto the
\* smaller set of digests, so two different contents can have one digest
\* (contents 1 and NumDigests + 1 do).
Md5(content) == <<"md5", content % NumDigests>>

\* ----------------------------------------------------------------- strings
DigitChars == {"0", "1", "2", "3", "4", "5", "6", "7", "8", "9"}
\* \s
SpaceChars == {" "}
\* \w of a lower-cased ASCII subject
WordChars ==
    DigitChars \cup {"_"} \cup
    {"a", "b", "c", "d", "e", "f", "g", "h", "i", "j", "k", "l", "m", "n",
     "o", "p", "q", "r", "s", "t", "u", "v", "w", "x", "y", "z"}

UpperChars ==
    <<"A", "B", "C", "D", "E", "F", "G", "H", "I", "J", "K", "L", "M", "N",
      "O", "P", "Q", "R", "S", "T", "U", "V", "W", "X", "Y", "Z">>
LowerChars ==
    <<"a", "b", "c", "d", "e", "f", "g", "h", "i", "j", "k", "l", "m", "n",
      "o", "p", "q", "r", "s", "t", "u", "v", "w", "x", "y", "z">>

\* str.lower() on one character
LowerChar(c) ==
    IF \E k \in 1..26 : UpperChars[k] = c
    THEN LowerChars[CHOOSE k \in 1..26 : UpperChars[k] = c]
    ELSE c

\* str.lower()
Lower(s) == [k \in 1..Len(s) |-> LowerChar(s[k])]

\* str.strip()
Strip(s) ==
    LET keep == {k \in 1..Len(s) : s[k] \notin SpaceChars}
    IN  IF keep = {} THEN <<>>
        ELSE SubSeq(s, CHOOSE k \in keep : \A j \in keep : k <= j,
                       CHOOSE k \in keep : \A j \in keep : k >= j)

\* lit occurs in s at position i
HasPrefixAt(s, i, lit) ==
    /\ i + Len(lit) - 1 <= Len(s)
    /\ \A k \in 1..Len(lit) : s[i + k - 1] = lit[k]

\* "needle in haystack"
Contains(haystack, needle) ==
    \E i \in 1..(Len(haystack) + 1) : HasPrefixAt(haystack, i, needle)

\* Number of consecutive characters of class cls in s from position i on.
RunLength(s, i, cls) ==
    LET stops == {k \in i..Len(s) : s[k] \notin cls}
    IN  IF stops = {} THEN Len(s) + 1 - i
        ELSE (CHOOSE k \in stops : \A j \in stops : k <= j) - i

\* ------------------------------------------------- regular expressions (re)
\* A pattern is a sequence of elements: a literal, \s*, an optional literal
\* (x?), \b, and a capture group (c+) over a character class c.
Lit(chars) == [k |-> "lit", s |-> chars]
Ws == [k |-> "ws", s |-> <<>>]
Opt(chars) == [k |-> "opt", s |-> chars]
Wb == [k |-> "wb", s |-> <<>>]
\* (\d+)
Digits == [k |-> "group", s |-> DigitChars]
\* [A-Za-z0-9-]
PoChars ==
    DigitChars \cup {"-"} \cup {LowerChars[k] : k \in 1..26}
               \cup {UpperChars[k] : k \in 1..26}
\* ([A-Za-z0-9-]+), the capture group of the PO number patterns
PoWord == [k |-> "group", s |-> PoChars]

NoMatch == [ok |-> FALSE, cap |-> <<>>]

\* \b at position i: exactly one of s[i-1], s[i] is a word character.
WordBoundary(s, i) ==
    LET before == i > 1 /\ s[i - 1] \in WordChars
        after == i <= Len(s) /\ s[i] \in WordChars
    IN  before # after

\* Greedy quantifiers with backtracking: the longest repetition after which
\* the rest of the pattern matches.
RECURSIVE MatchFrom(_, _, _, _, _)
MatchFrom(pat, j, s, i, cap) ==
    IF j > Len(pat) THEN [ok |-> TRUE, cap |-> cap]
    ELSE LET e == pat[j] IN
         CASE e.k = "lit" ->
                IF HasPrefixAt(s, i, e.s)
                THEN MatchFrom(pat, j + 1, s, i + Len(e.s), cap)
                ELSE NoMatch
           [] e.k = "opt" ->
                LET taken == IF HasPrefixAt(s, i, e.s)
                             THEN MatchFrom(pat, j + 1, s, i + Len(e.s), cap)
                             ELSE NoMatch
                IN  IF taken.ok THEN taken
                    ELSE MatchFrom(pat, j + 1, s, i, cap)
           [] e.k = "wb" ->
                IF WordBoundary(s, i) THEN MatchFrom(pat, j + 1, s, i, cap)
                ELSE NoMatch
           [] e.k = "ws" ->
                LET good == {n \in 0..RunLength(s, i, SpaceChars) :
                                MatchFrom(pat, j + 1, s, i + n, cap).ok}
                IN  IF good = {} THEN NoMatch
                    ELSE MatchFrom(pat, j + 1, s,
                             i + (CHOOSE n \in good : \A o \in good : n >= o),
                             cap)
           [] e.k = "group" ->
                LET good == {n \in 1..RunLength(s, i, e.s) :
                                MatchFrom(pat, j + 1, s, i + n,
                                          SubSeq(s, i, i + n - 1)).ok}
                IN  IF good = {} THEN NoMatch
                    ELSE LET n == CHOOSE n \in good : \A o \in good : n >= o
                         IN  MatchFrom(pat, j + 1, s, i + n,
                                       SubSeq(s, i, i + n - 1))

\* re.search(pattern, s): the leftmost match.
ReSearch(pat, s) ==
    LET starts == {i \in 1..(Len(s) + 1) : MatchFrom(pat, 1, s, i, <<>>).ok}
    IN  IF starts = {} THEN NoMatch
        ELSE MatchFrom(pat, 1, s,
                       CHOOSE i \in starts : \A o \in starts : i <= o, <<>>)

\* --------------------------------------------------------- extract_indent_id
\* self.indent_patterns, in the declared order.
indent_patterns ==
    << \* indent\s*id\s*:?\s*(\d+)
       <<Lit(<<"i", "n", "d", "e", "n", "t">>), Ws, Lit(<<"i", "d">>), Ws,
         Opt(<<":">>), Ws, Digits>>,
       \* indent\s*#?\s*(\d+)
       <<Lit(<<"i", "n", "d", "e", "n", "t">>), Ws, Opt(<<"#">>), Ws, Digits>>,
       \* \bid\s*:?\s*(\d+)
       <<Wb, Lit(<<"i", "d">>), Ws, Opt(<<":">>), Ws, Digits>>,
       \* req(?:uest)?\s*id\s*:?\s*(\d+)
       <<Lit(<<"r", "e", "q">>), Opt(<<"u", "e", "s", "t">>), Ws,
         Lit(<<"i", "d">>), Ws, Opt(<<":">>), Ws, Digits>>,
       \* requirement\s*id\s*:?\s*(\d+)
       <<Lit(<<"r", "e", "q", "u", "i", "r", "e", "m", "e", "n", "t">>), Ws,
         Lit(<<"i", "d">>), Ws, Opt(<<":">>), Ws, Digits>>,
       \* rfq\s*:?\s*(\d+)
       <<Lit(<<"r", "f", "q">>), Ws, Opt(<<":">>), Ws, Digits>>,
       \* quotation\s*:?\s*(\d+)
       <<Lit(<<"q", "u", "o", "t", "a", "t", "i", "o", "n">>), Ws,
         Opt(<<":">>), Ws, Digits>>,
       \* quote\s*:?\s*(\d+)
       <<Lit(<<"q", "u", "o", "t", "e">>), Ws, Opt(<<":">>), Ws, Digits>> >>

\* None
NoId == <<>>

\* extract_indent_id with the loop returning the capture group of the last
\* pattern that matches instead of the first.
extract_indent_id_last_rule(subject) ==
    IF subject = <<>> THEN NoId
    ELSE LET subject_lower == Strip(Lower(subject))
             hits == {p \in 1..Len(indent_patterns) :
                         ReSearch(indent_patterns[p], subject_lower).ok}
         IN  IF hits = {} THEN NoId
             ELSE ReSearch(indent_patterns[CHOOSE p \in hits :
                                              \A o \in hits : p >= o],
                           subject_lower).cap

\* The capture group of the first pattern, in list order, that matches the
\* lower-cased, stripped subject; NoId when the subject is empty or no
\* pattern matches.
extract_indent_id(subject) ==
    IF subject = <<>> THEN NoId
    ELSE LET subject_lower == Strip(Lower(subject))
             hits == {p \in 1..Len(indent_patterns) :
                         ReSearch(indent_patterns[p], subject_lower).ok}
         IN  IF hits = {} THEN NoId
             ELSE ReSearch(indent_patterns[CHOOSE p \in hits :
                                              \A o \in hits : p <= o],
                           subject_lower).cap

\* ---------------------------------------------------------------- mailbox
\* Number of messages the mail server can hold (message ids 1..NumMsgs).
NumMsgs == 3

MsgIds == 1..NumMsgs

\* One EmailAttachment as _get_attachments returns it: a part with a file
\* name of a supported extension and non-empty data.
Att(filename, content) == [filename |-> filename, content |-> content]

SubjIndent7 == <<"I", "n", "d", "e", "n", "t", " ", "7">>
SubjQuote == <<"q", "u", "o", "t", "e">>
SubjRfq17 == <<"r", "f", "q", " ", "1", "7">>

\* The messages that can be in the mailbox. header_attachment: the header
\* text contains "attachment" outside the subject.
MsgTable ==
    << [subject |-> SubjIndent7, sender |-> "a", date |-> 1, age |-> 1,
        header_attachment |-> FALSE,
        attachments |-> <<Att("F.pdf", 1), Att("G.pdf", 3)>>],
       [subject |-> SubjIndent7, sender |-> "b", date |-> 2, age |-> 2,
        header_attachment |-> FALSE,
        attachments |-> <<Att("F.pdf", 2)>>],
       [subject |-> SubjQuote, sender |-> "a", date |-> 3, age |-> 3,
        header_attachment |-> FALSE,
        attachments |-> <<Att("F.pdf", 1)>>],
       [subject |-> SubjRfq17, sender |-> "b", date |-> 4, age |-> 4,
        header_attachment |-> FALSE,
        attachments |-> <<Att("G.pdf", 2)>>] >>

Msg(m) == MsgTable[((m - 1) % Len(MsgTable)) + 1]

\* Message sequence numbers of one and of two digits, for the calls of the
\* relevance filter on its own.
FilterIds == {2, 9, 10, 11}

\* The ids of every message that can be delivered or found.
TableIds == MsgIds \cup (1..Len(MsgTable)) \cup FilterIds

\* The identifiers process_emails_by_indent is called with directly.
CallIds == {Id7}

\* extract_indent_id of every message's subject (evaluated once).
MsgIndentId == [m \in TableIds |-> extract_indent_id(Msg(m).subject)]

\* Lines 630-635
search_patterns(indent_id) ==
    << <<"i", "n", "d", "e", "n", "t", " ">> \o indent_id,
       <<"i", "n", "d", "e", "n", "t", " ", "i", "d", " ">> \o indent_id,
       <<"i", "d", " ">> \o indent_id,
       indent_id >>

quote_keywords ==
    << <<"i", "n", "d", "e", "n", "t">>,
       <<"q", "u", "o", "t", "a", "t", "i", "o", "n">>,
       <<"q", "u", "o", "t", "e">>,
       <<"r", "f", "q">>,
       <<"p", "r", "o", "p", "o", "s", "a", "l">>,
       <<"r", "e", "q", "u", "e", "s", "t">>,
       <<"p", "u", "r", "c", "h", "a", "s", "e">>,
       <<"t", "e", "n", "d", "e", "r">> >>

SetOfSeq(xs) == {xs[k] : k \in 1..Len(xs)}

\* Every key a SUBJECT search is issued with.
SearchKeys ==
    SetOfSeq(quote_keywords) \cup
    UNION {SetOfSeq(search_patterns(id)) :
              id \in (CallIds \cup {MsgIndentId[m] : m \in MsgIds}) \ {NoId}}

\* Whether the server finds message m for SUBJECT "<key>": the key is a
\* case-insensitive substring of the subject (evaluated once).
SubjectMatches ==
    [m \in TableIds |->
        [key \in SearchKeys |->
            Contains(Lower(Msg(m).subject), Lower(key))]]

\* ------------------------------------------------------------------- IMAP
\* imap_connection.search(None, 'SUBJECT "<key>"') on connection state c:
\* the server matches the key as a case-insensitive substring of the
\* subject; on a dropped connection the call raises.
imap_search_subject(mb, c, key) ==
    IF c # "ok" THEN [ok |-> FALSE, ids |-> {}]
    ELSE [ok |-> TRUE, ids |-> {m \in mb : SubjectMatches[m][key]}]

\* imap_connection.search(None, 'SINCE "<now - days_back>"')
imap_search_since(mb, c, days_back) ==
    IF c # "ok" THEN [ok |-> FALSE, ids |-> {}]
    ELSE [ok |-> TRUE, ids |-> {m \in mb : Msg(m).age <= days_back}]

\* imap_connection.search(None, 'ALL')
imap_search_all(mb, c) ==
    IF c # "ok" THEN [ok |-> FALSE, ids |-> {}]
    ELSE [ok |-> TRUE, ids |-> mb]

\* The decimal digits of a message id, as the bytes the server returns.
RECURSIVE DecDigits(_)
DecDigits(n) ==
    IF n < 10 THEN <<n>> ELSE Append(DecDigits(n \div 10), n % 10)

\* a < b for bytes objects (lexicographic)
RECURSIVE BytesLess(_, _)
BytesLess(a, b) ==
    IF a = <<>> THEN b # <<>>
    ELSE IF b = <<>> THEN FALSE
    ELSE IF Head(a) # Head(b) THEN Head(a) < Head(b)
    ELSE BytesLess(Tail(a), Tail(b))

\* sorted(list(ids), reverse=True) on the ids as bytes
RECURSIVE SortedReverse(_)
SortedReverse(ids) ==
    IF ids = {} THEN <<>>
    ELSE LET top == CHOOSE m \in ids :
                        \A o \in ids \ {m} :
                            BytesLess(DecDigits(o), DecDigits(m))
         IN  <<top>> \o SortedReverse(ids \ {top})

\* xs[:n]
Take(xs, n) == SubSeq(xs, 1, IF n < Len(xs) THEN n ELSE Len(xs))

\* xs[-n:]
Last(xs, n) == SubSeq(xs, IF n < Len(xs) THEN Len(xs) - n + 1 ELSE 1, Len(xs))

\* ----------------------------------------------------------- search_emails
AttachmentWord == <<"a", "t", "t", "a", "c", "h", "m", "e", "n", "t">>

\* Number of messages the 'ALL' fallback keeps.
FallbackRecent == 50

\* "if not found_emails:" before the next search tier
FirstNonEmpty(found, next_tier) == IF found # {} THEN found ELSE next_tier

\* message_ids[0].split(): the ids in ascending sequence-number order
Ascending(ids) ==
    [k \in 1..Cardinality(ids) |->
        CHOOSE m \in ids : Cardinality({o \in ids : o < m}) = k - 1]

\* Lines 255-295: the three search tiers; a failed search is skipped.
search_emails_found(mb, c, days_back) ==
    FirstNonEmpty(
        FirstNonEmpty(
            UNION {imap_search_subject(mb, c, quote_keywords[k]).ids :
                      k \in 1..Len(quote_keywords)},
            imap_search_since(mb, c, days_back).ids),
        SetOfSeq(Last(Ascending(imap_search_all(mb, c).ids), FallbackRecent)))

\* Lines 312-341 for one candidate whose header was fetched: whether the
\* message is relevant.
search_emails_relevant(m) ==
    LET subject_lower == Lower(Msg(m).subject)
        has_keyword == \E k \in 1..Len(quote_keywords) :
                           Contains(subject_lower, quote_keywords[k])
        header_attachment == \/ Msg(m).header_attachment
                             \/ Contains(subject_lower, AttachmentWord)
        has_attachments == /\ has_keyword \/ header_attachment
                           /\ Len(Msg(m).attachments) > 0
    IN  /\ Msg(m).subject # <<>>
        /\ has_keyword \/ has_attachments

MsgRelevant == [m \in TableIds |-> search_emails_relevant(m)]

\* Lines 306-346: the relevance filter over the candidates, in order.
\* hdrFail: the ids whose header fetch raises.
RECURSIVE search_emails_filter(_, _, _, _)
search_emails_filter(candidates, filtered, max_results, hdrFail) ==
    IF candidates = <<>> THEN filtered
    ELSE LET m == Head(candidates) IN
         IF m \in hdrFail
         THEN search_emails_filter(Tail(candidates), Append(filtered, m),
                                   max_results, hdrFail)
         ELSE IF MsgRelevant[m]
         THEN IF Len(filtered) + 1 >= max_results
              THEN Append(filtered, m)
              ELSE search_emails_filter(Tail(candidates), Append(filtered, m),
                                        max_results, hdrFail)
         ELSE search_emails_filter(Tail(candidates), filtered, max_results,
                                   hdrFail)

\* Lines 301 and 307: the candidates the filter examines, in order.
search_emails_candidates(found_emails, max_results) ==
    Take(SortedReverse(found_emails), max_results * 2)

\* Lines 297-358: nothing found, or the filter over the candidates.
search_emails_filtered(found_emails, max_results, hdrFail) ==
    IF found_emails = {} THEN <<>>
    ELSE search_emails_filter(
             search_emails_candidates(found_emails, max_results),
             <<>>, max_results, hdrFail)

\* search_emails on an existing connection object (state c).
search_emails(mb, c, days_back, max_results, hdrFail) ==
    search_emails_filtered(search_emails_found(mb, c, days_back),
                           max_results, hdrFail)

\* -------------------------------------------------------- get_email_details
NoDetails ==
    [ok |-> FALSE, email_id |-> 0, subject |-> <<>>, sender |-> "",
     date |-> 0, indent_id |-> NoId, attachments |-> <<>>]

\* None without connection, when the fetch raises (dropped connection) or
\* returns no data; else the QuoteEmail.
get_email_details(mb, c, email_id) ==
    IF c # "ok" \/ email_id \notin mb THEN NoDetails
    ELSE [ok |-> TRUE, email_id |-> email_id,
          subject |-> Msg(email_id).subject,
          sender |-> Msg(email_id).sender,
          date |-> Msg(email_id).date,
          indent_id |-> MsgIndentId[email_id],
          attachments |-> Msg(email_id).attachments]

VARIABLES
    files,      \* the attachment store: path -> content
    dirs,       \* buckets whose directory exists
    now,        \* datetime.now() truncated to the second
    lastSave,   \* history: the last save_attachment call and its outcome
    mailbox,    \* ids of the messages in the INBOX
    conn,       \* imap_connection: "none" (None), "ok", "dropped"
    summaries,  \* bucket -> content of its summary.json
    master,     \* content of master_summary.json
    pc,         \* where the harvest run in progress stands
    run,        \* locals of process_emails_by_indent
    scan,       \* locals of scan_all_emails
    result,     \* value the last top-level call returned (none while it runs)
    ended,      \* history: how the last top-level call ended
    calls,      \* number of top-level harvest calls made so far
    faults,     \* number of failures the environment has injected so far
    gen,        \* a structured-field generator and the call in progress on it
    ex,         \* a call of extract_indent_id: its subject and its result
    po,         \* the PO invoice harvester: mailbox, store, database, run
    conc,       \* two overlapping runs of process_emails_by_indent
    srch,       \* a search_emails call: the searches it issued
    hr,         \* the employee-ID harvester: mailbox, store, clock, run
    sav,        \* two overlapping save_attachment calls on one bucket
    db          \* the quotation database file and the calls on it

storeVars == <<files, dirs, now, lastSave>>
harvestVars ==
    <<mailbox, conn, summaries, master, pc, run, scan, result, ended, calls,
      faults>>
\* the state of the components other than the harvester and its store
moduleVars == <<gen, ex, po, conc, srch, hr, sav, db>>
vars == <<files, dirs, now, lastSave, mailbox, conn, summaries, master, pc,
          run, scan, result, ended, calls, faults, gen, ex, po, conc, srch,
          hr, sav, db>>

\* ------------------------------------------------------------ file system
Exists(fs, p) == p \in DOMAIN fs

WriteFile(fs, p, content) ==
    [q \in (DOMAIN fs) \cup {p} |-> IF q = p THEN content ELSE fs[q]]

\* ---------------------------------------------------------- save_attachment
\* Lines 526-547: TRUE when the exact file exists, could be read and its md5
\* equals that of the new content (the call returns the existing path).
save_attachment_is_duplicate(fs, exact, content, readOk) ==
    /\ Exists(fs, exact)
    /\ readOk
    /\ Md5(fs[exact]) = Md5(content)

\* save_attachment_file_path without the timestamp branch (lines 554-558):
\* the new content goes to the exact file name.
save_attachment_file_path_exact(fs, indent_id, filename, t) ==
    Path(indent_id, 0, filename)

\* Lines 549-559: the path the new content is written to.
save_attachment_file_path(fs, indent_id, filename, t) ==
    IF ~Exists(fs, Path(indent_id, 0, filename))
    THEN Path(indent_id, 0, filename)
    ELSE Path(indent_id, t, filename)

\* The whole call. readOk: reading the existing file succeeds; writeOk:
\* open(file_path, 'wb') and the write succeed. Result: the store after the
\* call, and the returned path or the raised exception.
save_attachment(fs, indent_id, filename, content, t, readOk, writeOk) ==
    LET exact == Path(indent_id, 0, filename)
        target == save_attachment_file_path(fs, indent_id, filename, t)
    IN  IF save_attachment_is_duplicate(fs, exact, content, readOk)
        THEN [files |-> fs, ret |-> exact, outcome |-> "returned"]
        ELSE IF writeOk
             THEN [files |-> WriteFile(fs, target, content), ret |-> target,
                   outcome |-> "returned"]
             ELSE [files |-> fs, ret |-> NoPath, outcome |-> "raised"]

\* History record of a call at clock second t. ioError: the read of the
\* existing file or the write of the new one failed.
SaveRecord(fs, indent_id, filename, content, t, readOk, writeOk, res) ==
    [indent_id |-> indent_id, filename |-> filename, content |-> content,
     at |-> t,
     ioError |-> \/ Exists(fs, Path(indent_id, 0, filename)) /\ ~readOk
                 \/ res.outcome = "raised",
     canonBefore |-> IF Exists(fs, Path(indent_id, 0, filename))
                     THEN fs[Path(indent_id, 0, filename)] ELSE NoFile,
     created |-> res.outcome = "returned" /\ ~Exists(fs, res.ret),
     ret |-> res.ret, outcome |-> res.outcome]

NoSave ==
    [indent_id |-> <<>>, filename |-> "", content |-> NoFile,
     at |-> 0, ioError |-> FALSE,
     canonBefore |-> NoFile, created |-> FALSE, ret |-> NoPath,
     outcome |-> "none"]

\* ------------------------------------------------------------ summary store
\* One element of a summary's 'quotes' list. The values are JSON-native
\* (strings, numbers, dicts), so json.dump / json.load return them unchanged.
NoQuoteData == [success |-> FALSE, error |-> "", source |-> NoFile]

QuoteEntry(details, filename, saved_path, quote_data) ==
    [email_subject |-> details.subject, sender |-> details.sender,
     date |-> details.date, filename |-> filename, saved_path |-> saved_path,
     quote_data |-> quote_data]

NoEntry ==
    [email_subject |-> <<>>, sender |-> "", date |-> 0, filename |-> "",
     saved_path |-> NoPath, quote_data |-> NoQuoteData]

\* success: the 'success' key of the dict ("absent" when the dict has none)
Summary(indent_id, t, total_emails, quotes, success) ==
    [indent_id |-> indent_id, processed_date |-> t,
     total_emails |-> total_emails, total_quotes |-> Len(quotes),
     quotes |-> quotes, success |-> success]

NoSummary == Summary(NoId, 0, 0, <<>>, "absent")

\* The loop of lines 879-883 reading a key the entries do not have
\* (quote.get of a misspelt key is None): nothing is ever found.
is_quote_already_processed_first_wrong_key(quotes, email_subject, filename) ==
    [found |-> FALSE, quote |-> NoEntry]

\* Lines 864-889 with the loop as written: the first quote of the persisted
\* summary whose email_subject and filename both match.
is_quote_already_processed_first(quotes, email_subject, filename) ==
    LET hits == {k \in 1..Len(quotes) :
                    /\ quotes[k].email_subject = email_subject
                    /\ quotes[k].filename = filename}
    IN  IF hits = {} THEN [found |-> FALSE, quote |-> NoEntry]
        ELSE [found |-> TRUE,
              quote |-> quotes[CHOOSE k \in hits : \A o \in hits : k <= o]]

\* _is_quote_already_processed: None when summary.json does not exist.
is_quote_already_processed(sums, indent_id, email_subject, filename) ==
    IF indent_id \notin DOMAIN sums THEN [found |-> FALSE, quote |-> NoEntry]
    ELSE is_quote_already_processed_first(sums[indent_id].quotes,
                                          email_subject, filename)

\* ---------------------------------------------------------------- FileParser
\* FileParser.__init__ (fileparser.py 30-31) with max_file_size_mb = 10, as
\* EmailParsingAgent constructs it.
max_file_size == 10 * 1024 * 1024

\* st_size of a file with this content: of three contents in a row the
\* first is one byte larger than the largest size allowed, the second has
\* exactly that size and the third is small.
FileSize(content) ==
    CASE content % 3 = 1 -> max_file_size + 1
      [] content % 3 = 2 -> max_file_size
      [] OTHER -> 1024

\* What parse_file_async returns; parser_called (history): a
\* format-specific parser was invoked.
ParseResult(success, error, raw_text, parser_called) ==
    [success |-> success, error |-> error, raw_text |-> raw_text,
     parser_called |-> parser_called]

\* parse_file_async without the size check of _validate_file_async
\* (fileparser.py 120-123).
parse_file_async_unchecked(fs, file_path, parserOk) ==
    IF ~Exists(fs, file_path)
    THEN ParseResult(FALSE, "File validation failed: File not found", NoFile,
                     FALSE)
    ELSE IF ~parserOk
    THEN ParseResult(FALSE, "Failed to parse", NoFile, TRUE)
    ELSE ParseResult(TRUE, "", fs[file_path], TRUE)

\* FileParser.parse_file_async (fileparser.py 44-106) with
\* _validate_file_async (114-133). parserOk: the format-specific parser
\* returns text (FALSE also stands for a file type the build cannot parse).
parse_file_async(fs, file_path, parserOk) ==
    IF ~Exists(fs, file_path)
    THEN ParseResult(FALSE, "File validation failed: File not found", NoFile,
                     FALSE)
    ELSE IF FileSize(fs[file_path]) > max_file_size
    THEN ParseResult(FALSE, "File validation failed: File too large", NoFile,
                     FALSE)
    ELSE IF ~parserOk
    THEN ParseResult(FALSE, "Failed to parse", NoFile, TRUE)
    ELSE ParseResult(TRUE, "", fs[file_path], TRUE)

\* -------------------------------------------------------- process_quote_file
\* What parsing the file and the remote extraction come to.
ExtractOutcomes == {"extracted", "parse_error", "remote_error"}

\* Lines 573-615: every failure is returned as {"success": False, "error"};
\* the method raises nothing. parsed: what parse_file_async returned.
process_quote_file_result(parsed, outcome) ==
    [raised |-> FALSE,
     quote_data |->
        IF ~parsed.success
        THEN [success |-> FALSE, error |-> parsed.error, source |-> NoFile]
        ELSE IF outcome = "remote_error"
        THEN [success |-> FALSE, error |-> "remote call failed",
              source |-> NoFile]
        ELSE [success |-> TRUE, error |-> "", source |-> parsed.raw_text]]

\* process_quote_file without the except clause of lines 610-615: a failed
\* parse or extraction leaves the method as an exception.
process_quote_file_raising(fs, file_path, outcome) ==
    [raised |-> \/ outcome # "extracted"
                \/ ~parse_file_async(fs, file_path, TRUE).success,
     quote_data |->
        IF outcome = "extracted" /\ parse_file_async(fs, file_path, TRUE).success
        THEN [success |-> TRUE, error |-> "", source |-> fs[file_path]]
        ELSE NoQuoteData]

\* process_quote_file (lines 569-615)

process_quote_file(fs, file_path, outcome) ==
    process_quote_file_result(
        parse_file_async(fs, file_path, outcome # "parse_error"), outcome)

\* ------------------------------------------------------------ return values
ErrorResult(msg) ==
    [shape |-> "error", error |-> msg, summary |-> NoSummary, list |-> <<>>]
SummaryResult(summary) ==
    [shape |-> "summary", error |-> "", summary |-> summary, list |-> <<>>]
ListResult(list) ==
    [shape |-> "list", error |-> "", summary |-> NoSummary, list |-> list]
NoResult ==
    [shape |-> "none", error |-> "", summary |-> NoSummary, list |-> <<>>]

\* History record of a top-level call that has returned: the mode, the
\* identifier it was called with, how it ended, whether a message fetch
\* failed during it, and whether the mailbox has changed since it returned.
Ended(mode, indent_id, how, fetchFailed) ==
    [mode |-> mode, indent_id |-> indent_id, how |-> how,
     fetchFailed |-> fetchFailed, mailboxChanged |-> FALSE]
\* no call has returned yet, or a call is in progress
NotEnded == Ended("none", <<>>, "none", FALSE)
\* the record after a message arrived or was deleted
MailboxChanged(e) ==
    IF e = NotEnded THEN e ELSE [e EXCEPT !.mailboxChanged = TRUE]

\* --------------------------------------------------------- injected faults
\* The outcomes of a disk write and of an extraction that the environment
\* can still produce.
WriteOutcomes == IF faults < MaxFaults THEN BOOLEAN ELSE {TRUE}
PossibleOutcomes == IF faults < MaxFaults THEN ExtractOutcomes ELSE {"extracted"}
FaultsUsed(writeOk, outcome) ==
    IF ~writeOk \/ outcome # "extracted" THEN 1 ELSE 0

\* ------------------------------------------------- process_emails_by_indent
\* days_back and max_results of the broader search (line 651)
BroadDaysBack == 365
BroadMaxResults == 1000

\* Lines 629-662: the message ids the run works on.
process_emails_by_indent_found(mb, c, indent_id) ==
    FirstNonEmpty(
        UNION {imap_search_subject(mb, c, search_patterns(indent_id)[k]).ids :
                  k \in 1..Len(search_patterns(indent_id))},
        {m \in SetOfSeq(search_emails(mb, c, BroadDaysBack, BroadMaxResults,
                                      {})) :
            /\ get_email_details(mb, c, m).ok
            /\ get_email_details(mb, c, m).indent_id = indent_id})

NoRun ==
    [indent_id |-> NoId, caller |-> "top", email_ids |-> {}, todo |-> {},
     cur |-> 0, att |-> 0, processed_quotes |-> <<>>, doneAtts |-> <<>>,
     saveCalls |-> {}, extractCalls |-> {}, failedAtts |-> {},
     fetchFailed |-> FALSE, prev |-> NotEnded]

\* prev (history): how the top-level call before this one ended.
NewRun(indent_id, caller, email_ids) ==
    [NoRun EXCEPT !.indent_id = indent_id, !.caller = caller,
                  !.email_ids = email_ids, !.todo = email_ids,
                  !.prev = IF caller = "top" THEN ended ELSE NotEnded]

NoScan ==
    [email_ids |-> <<>>, rest |-> <<>>, keys |-> <<>>,
     indent_summaries |-> <<>>, unassigned_quotes |-> <<>>,
     processed_count |-> 0, cur |-> 0, att |-> 0, noIdAtts |-> {},
     fetchFailed |-> FALSE, touched |-> {}, extractCalls |-> {},
     prev |-> NotEnded]

\* NoScan's history fields: noIdAtts, the attachments of messages without
\* identifier the scan has handled; extractCalls, those of them it called
\* process_quote_file on; prev, how the top-level call before the scan ended.

\* Line 773-776: scan_all_emails keeps the summary a nested run returned
\* unless it carries success = False. touched (history): the buckets into
\* which the scan saved or from which it reused a document; the nested run
\* that returns here did so when it has handled an attachment.
ScanKeeps(sc, indent_id, ret, fetchFailed) ==
    [sc EXCEPT
        !.touched = IF run.doneAtts # <<>> THEN @ \cup {indent_id} ELSE @,
        !.keys = IF ret.shape = "error" THEN @ ELSE Append(@, indent_id),
        !.indent_summaries =
            IF ret.shape = "error" THEN @ ELSE Append(@, ret.summary),
        !.fetchFailed = @ \/ fetchFailed]

\* process_emails_by_indent returns ret to its caller; sc is scan_all_emails'
\* state at the call.
IndentReturns(caller, sc, indent_id, ret, how, fetchFailed) ==
    /\ run' = NoRun
    /\ IF caller = "top"
       THEN /\ pc' = "idle"
            /\ result' = ret
            /\ ended' = Ended("indent", indent_id, how, fetchFailed)
            /\ scan' = sc
       ELSE /\ pc' = "scan_loop"
            /\ scan' = ScanKeeps(sc, indent_id, ret, fetchFailed)
            /\ UNCHANGED <<result, ended>>

\* Lines 665-676: return at once when no message was found, else enter the
\* loop over the messages.
BeginIndentLoop(indent_id, caller, sc, email_ids) ==
    IF email_ids = {}
    THEN IndentReturns(caller, sc, indent_id,
                       SummaryResult(Summary(indent_id, now, 0, <<>>, "true")),
                       "no_emails", FALSE)
    ELSE /\ run' = NewRun(indent_id, caller, email_ids)
         /\ pc' = "indent_loop"
         /\ scan' = sc
         /\ IF caller = "top"
            THEN result' = NoResult /\ ended' = NotEnded
            ELSE UNCHANGED <<result, ended>>

\* The connection object after "if not self.imap_connection: connect".
Connected(c) == IF c = "none" THEN "ok" ELSE c

\* Lines 621-676: connect if there is no connection object, search, and
\* either return at once or enter the loop over the messages found.
\* connected: whether connect_to_email succeeds.
BeginIndent(indent_id, caller, sc, connected) ==
    IF conn = "none" /\ ~connected
    THEN /\ IndentReturns(caller, sc, indent_id,
                          ErrorResult("Failed to connect to email server"),
                          "connect_failed", FALSE)
         /\ UNCHANGED conn
    ELSE /\ conn' = Connected(conn)
         /\ BeginIndentLoop(indent_id, caller, sc,
                process_emails_by_indent_found(mailbox, Connected(conn),
                                               indent_id))

\* A top-level call process_emails_by_indent(indent_id).
ProcessEmailsByIndent ==
    /\ pc = "idle"
    /\ calls < MaxCalls
    /\ calls' = calls + 1
    /\ \E indent_id \in CallIds, connected \in BOOLEAN :
           BeginIndent(indent_id, "top", scan, connected)
    /\ UNCHANGED <<files, dirs, now, lastSave, mailbox, summaries, master>>
    /\ UNCHANGED faults
    /\ UNCHANGED moduleVars

\* After the last attachment of a message, or a message without any.
NextPc(todo) == IF todo = {} THEN "indent_done" ELSE "indent_loop"

\* Lines 678-680: the next message of the loop. found_emails is a set, so
\* the loop takes the ids in the set's iteration order.
IndentFetch ==
    /\ pc = "indent_loop"
    /\ \E m \in run.todo :
        LET details == get_email_details(mailbox, conn, m)
            todo == run.todo \ {m}
        IN  IF details.ok /\ Len(details.attachments) > 0
            THEN /\ run' = [run EXCEPT !.todo = todo, !.cur = m, !.att = 1]
                 /\ pc' = "indent_att"
            ELSE /\ run' = [run EXCEPT !.todo = todo,
                               !.fetchFailed = @ \/ ~details.ok]
                 /\ pc' = NextPc(todo)
    /\ UNCHANGED <<files, dirs, now, lastSave, mailbox, conn, summaries,
                   master, scan, result, ended>>
    /\ UNCHANGED calls
    /\ UNCHANGED faults
    /\ UNCHANGED moduleVars

\* Lines 683-713 for one attachment of the current message. writeOk: the
\* write of save_attachment succeeds; outcome: what parsing and extraction
\* come to.
IndentAttachmentStep(writeOk, outcome) ==
    /\ pc = "indent_att"
    /\ LET details == get_email_details(mailbox, "ok", run.cur)
           attachment == details.attachments[run.att]
           key == <<run.cur, run.att>>
           existing == is_quote_already_processed(
                           summaries, run.indent_id, details.subject,
                           attachment.filename)
           saved == save_attachment(files, run.indent_id, attachment.filename,
                                    attachment.content, now, TRUE, writeOk)
           processed == process_quote_file(saved.files, saved.ret, outcome)
           last == run.att = Len(details.attachments)
           advance(r) == [r EXCEPT !.cur = IF last THEN 0 ELSE @,
                                   !.att = IF last THEN 0 ELSE @ + 1,
                                   !.doneAtts = Append(@, key)]
           pcNext == IF last THEN NextPc(run.todo) ELSE "indent_att"
       IN  IF existing.found
           THEN /\ run' = advance([run EXCEPT !.processed_quotes =
                                       Append(@, existing.quote)])
                /\ pc' = pcNext
                /\ UNCHANGED <<files, dirs, scan, result, ended, faults>>
           ELSE /\ dirs' = dirs \cup {run.indent_id}
                /\ faults' = faults + FaultsUsed(writeOk, outcome)
                /\ files' = saved.files
                /\ IF saved.outcome = "raised" \/ processed.raised
                   THEN \* line 735: the exception ends the run
                        IndentReturns(run.caller, scan, run.indent_id,
                                      ErrorResult("exception"), "aborted",
                                      run.fetchFailed)
                   ELSE /\ run' = advance(
                               [run EXCEPT
                                   !.processed_quotes =
                                       Append(@, QuoteEntry(details,
                                           attachment.filename, saved.ret,
                                           processed.quote_data)),
                                   !.saveCalls = @ \cup {key},
                                   !.extractCalls = @ \cup {key},
                                   !.failedAtts =
                                       IF processed.quote_data.success
                                       THEN @ ELSE @ \cup {key}])
                        /\ pc' = pcNext
                        /\ UNCHANGED <<scan, result, ended>>
    /\ UNCHANGED <<now, lastSave, mailbox, conn, summaries, master>>
    /\ UNCHANGED calls
    /\ UNCHANGED moduleVars

IndentAttachment ==
    \E writeOk \in WriteOutcomes, outcome \in PossibleOutcomes :
        IndentAttachmentStep(writeOk, outcome)

\* Lines 715-733: write summary.json and return the summary.
IndentFinish ==
    /\ pc = "indent_done"
    /\ LET summary == Summary(run.indent_id, now, Cardinality(run.email_ids),
                              run.processed_quotes, "absent")
       IN  /\ dirs' = dirs \cup {run.indent_id}
           /\ summaries' = [b \in (DOMAIN summaries) \cup {run.indent_id} |->
                               IF b = run.indent_id THEN summary
                               ELSE summaries[b]]
           /\ IndentReturns(run.caller, scan, run.indent_id,
                            SummaryResult(summary), "done", run.fetchFailed)
    /\ UNCHANGED <<files, now, lastSave, mailbox, conn, master>>
    /\ UNCHANGED calls
    /\ UNCHANGED faults
    /\ UNCHANGED moduleVars

\* ---------------------------------------------------------- scan_all_emails
\* days_back and max_results of the scan's search (lines 739, 245)
ScanDaysBack == 30
ScanMaxResults == 100

\* The indent_id the 'Unknown' summary carries (line 813).
UnknownLabel == <<"U", "n", "k", "n", "o", "w", "n">>

\* Lines 743-753. connected: whether connect_to_email succeeds.
ScanAllEmails ==
    /\ pc = "idle"
    /\ calls < MaxCalls
    /\ calls' = calls + 1
    /\ \E connected \in BOOLEAN :
        IF conn = "none" /\ ~connected
        THEN /\ result' = ListResult(<<>>)
             /\ ended' = Ended("scan", <<>>, "connect_failed", FALSE)
             /\ UNCHANGED <<conn, pc, scan>>
        ELSE LET email_ids == search_emails(mailbox, Connected(conn),
                                            ScanDaysBack, ScanMaxResults, {})
             IN  /\ conn' = Connected(conn)
                 /\ scan' = [NoScan EXCEPT !.email_ids = email_ids,
                                           !.rest = email_ids,
                                           !.prev = ended]
                 /\ pc' = "scan_loop"
                 /\ result' = NoResult
                 /\ ended' = NotEnded
    /\ UNCHANGED <<files, dirs, now, lastSave, mailbox, summaries, master, run>>
    /\ UNCHANGED faults
    /\ UNCHANGED moduleVars

\* Lines 755-780: the next message of the scan.
ScanFetch ==
    /\ pc = "scan_loop"
    /\ scan.rest # <<>>
    /\ LET m == Head(scan.rest)
           details == get_email_details(mailbox, conn, m)
           skipped == [scan EXCEPT !.rest = Tail(@), !.fetchFailed = TRUE]
           counted == [scan EXCEPT !.rest = Tail(@),
                                   !.processed_count = @ + 1]
       IN  IF ~details.ok
           THEN /\ scan' = skipped
                /\ UNCHANGED <<pc, run, conn, result, ended>>
           ELSE IF details.indent_id # NoId
           THEN IF details.indent_id \in SetOfSeq(scan.keys)
                THEN /\ scan' = counted
                     /\ UNCHANGED <<pc, run, conn, result, ended>>
                ELSE BeginIndent(details.indent_id, "scan", counted, TRUE)
           ELSE IF Len(details.attachments) > 0
           THEN /\ scan' = [counted EXCEPT !.cur = m, !.att = 1]
                /\ pc' = "scan_att"
                /\ UNCHANGED <<run, conn, result, ended>>
           ELSE /\ scan' = counted
                /\ UNCHANGED <<pc, run, conn, result, ended>>
    /\ UNCHANGED <<files, dirs, now, lastSave, mailbox, summaries, master>>
    /\ UNCHANGED calls
    /\ UNCHANGED faults
    /\ UNCHANGED moduleVars

\* Lines 781-808 for one attachment of a message without identifier.
\* writeOk: the write of save_attachment succeeds; outcome: what parsing and
\* extraction come to.
ScanAttachmentStep(writeOk, outcome) ==
    /\ pc = "scan_att"
    /\ LET details == get_email_details(mailbox, "ok", scan.cur)
            attachment == details.attachments[scan.att]
            existing == is_quote_already_processed(
                            summaries, UnknownId, details.subject,
                            attachment.filename)
            saved == save_attachment(files, UnknownId, attachment.filename,
                                     attachment.content, now, TRUE, writeOk)
            processed == process_quote_file(saved.files, saved.ret, outcome)
            last == scan.att = Len(details.attachments)
            \* kept: the document was reused or saved; extracted:
            \* process_quote_file was called on it.
            advance(sc, kept, extracted) ==
                [sc EXCEPT !.cur = IF last THEN 0 ELSE @,
                           !.att = IF last THEN 0 ELSE @ + 1,
                           !.noIdAtts = @ \cup {<<scan.cur, scan.att>>},
                           !.touched = IF kept THEN @ \cup {UnknownId}
                                       ELSE @,
                           !.extractCalls =
                               IF extracted
                               THEN @ \cup {<<scan.cur, scan.att>>}
                               ELSE @]
        IN  /\ pc' = IF last THEN "scan_loop" ELSE "scan_att"
            /\ IF existing.found
               THEN /\ scan' = advance([scan EXCEPT !.unassigned_quotes =
                                           Append(@, existing.quote)],
                                       TRUE, FALSE)
                    /\ UNCHANGED <<files, dirs, faults>>
               ELSE /\ dirs' = dirs \cup {UnknownId}
                    /\ faults' = faults + FaultsUsed(writeOk, outcome)
                    /\ files' = saved.files
                    /\ IF saved.outcome = "raised"
                       THEN \* line 807: logged, the loop goes on
                            scan' = advance(scan, FALSE, FALSE)
                       ELSE IF processed.raised
                       THEN scan' = advance(scan, TRUE, TRUE)
                       ELSE scan' = advance(
                                [scan EXCEPT !.unassigned_quotes =
                                    Append(@, QuoteEntry(details,
                                        attachment.filename, saved.ret,
                                        processed.quote_data))],
                                TRUE, TRUE)
    /\ UNCHANGED <<now, lastSave, mailbox, conn, summaries, master, run,
               result, ended>>
    /\ UNCHANGED calls
    /\ UNCHANGED moduleVars

ScanAttachment ==
    \E writeOk \in WriteOutcomes, outcome \in PossibleOutcomes :
        ScanAttachmentStep(writeOk, outcome)

NoMaster ==
    [scan_date |-> 0, days_scanned |-> 0, total_emails_processed |-> 0,
     indent_summaries |-> <<>>, unassigned_quotes |-> <<>>]

\* Lines 810-835: the 'Unknown' summary, master_summary.json, the result.
ScanFinish ==
    /\ pc = "scan_loop"
    /\ scan.rest = <<>>
    /\ LET unknown_summary ==
               Summary(UnknownLabel, now,
                       scan.processed_count - Len(scan.indent_summaries),
                       scan.unassigned_quotes, "absent")
           indent_summaries ==
               IF scan.unassigned_quotes # <<>>
               THEN Append(scan.indent_summaries, unknown_summary)
               ELSE scan.indent_summaries
       IN  /\ master' = [scan_date |-> now, days_scanned |-> ScanDaysBack,
                         total_emails_processed |-> Len(scan.email_ids),
                         indent_summaries |-> indent_summaries,
                         unassigned_quotes |-> scan.unassigned_quotes]
           /\ result' = ListResult(indent_summaries)
           /\ ended' = Ended("scan", <<>>, "done", scan.fetchFailed)
    /\ pc' = "idle"
    /\ scan' = [NoScan EXCEPT !.noIdAtts = scan.noIdAtts,
                               !.touched = scan.touched]
    /\ UNCHANGED <<files, dirs, now, lastSave, mailbox, conn, summaries, run>>
    /\ UNCHANGED calls
    /\ UNCHANGED faults
    /\ UNCHANGED moduleVars

\* ------------------------------------------------------------- environment
\* A run is in progress or another call can follow: what the environment
\* does after the last call of a behaviour is of no consequence.
Observed == pc # "idle" \/ calls < MaxCalls

\* A message arrives in the INBOX (between harvest runs).
Deliver ==
    /\ pc = "idle"
    /\ Observed
    /\ \E m \in MsgIds \ mailbox : mailbox' = mailbox \cup {m}
    /\ ended' = MailboxChanged(ended)
    /\ UNCHANGED <<files, dirs, now, lastSave, conn, summaries, master, pc,
                   run, scan, result>>
    /\ UNCHANGED calls
    /\ UNCHANGED faults
    /\ UNCHANGED moduleVars

\* The messages of the filing scenario: one whose subject gives identifier
\* 7 and one whose subject gives 17.
FilingMsgs == {1, 4}

\* One of them arrives in the INBOX (between harvest runs).
DeliverFiling ==
    /\ pc = "idle"
    /\ Observed
    /\ \E m \in FilingMsgs \ mailbox : mailbox' = mailbox \cup {m}
    /\ ended' = MailboxChanged(ended)
    /\ UNCHANGED <<files, dirs, now, lastSave, conn, summaries, master, pc,
                   run, scan, result>>
    /\ UNCHANGED calls
    /\ UNCHANGED faults
    /\ UNCHANGED moduleVars

\* A message is deleted from the INBOX (between harvest runs).
Expunge ==
    /\ pc = "idle"
    /\ Observed
    /\ \E m \in mailbox : mailbox' = mailbox \ {m}
    /\ ended' = MailboxChanged(ended)
    /\ UNCHANGED <<files, dirs, now, lastSave, conn, summaries, master, pc,
                   run, scan, result>>
    /\ UNCHANGED calls
    /\ UNCHANGED faults
    /\ UNCHANGED moduleVars

\* The connection drops: from now on every IMAP call on it raises.
ConnectionDrops ==
    /\ conn = "ok"
    /\ Observed
    /\ faults < MaxFaults
    /\ faults' = faults + 1
    /\ conn' = "dropped"
    /\ UNCHANGED <<files, dirs, now, lastSave, mailbox, summaries, master, pc,
                   run, scan, result, ended>>
    /\ UNCHANGED calls
    /\ UNCHANGED moduleVars

\* The caller's disconnect_from_email() (lines 211-221).
DisconnectFromEmail ==
    /\ pc = "idle"
    /\ Observed
    /\ conn # "none"
    /\ conn' = "none"
    /\ UNCHANGED <<files, dirs, now, lastSave, mailbox, summaries, master, pc,
                   run, scan, result, ended>>
    /\ UNCHANGED calls
    /\ UNCHANGED faults
    /\ UNCHANGED moduleVars

\* The wall clock advances.
Tick ==
    /\ now < MaxClock
    /\ Observed
    /\ now' = now + 1
    /\ UNCHANGED <<files, dirs, lastSave>>
    /\ UNCHANGED harvestVars
    /\ UNCHANGED moduleVars

\* ------------------------------------------ structured-field generators
\* RFQFieldGenerator (rfq_agent.py), QuotationFieldGenerator
\* (quotation_parsing_agent.py), InvoiceFieldGenerator
\* (invoice_parsing_module.py)
Generators == {"rfq", "quotation", "invoice"}

\* The generators written after the RFQ generator: InvoiceFieldGenerator and
\* EWayBillFieldGenerator (ewaybill_parsing_module.py).
SiblingGenerators == {"invoice", "ewaybill"}

\* A JSON value of a reply, or the value of a model field: a key that is
\* absent, null / None, a number mant / 10^exp, a string, a boolean.
Val(t, mant, exp, chars, b) ==
    [t |-> t, mant |-> mant, exp |-> exp, chars |-> chars, b |-> b]
Absent == Val("absent", 0, 0, <<>>, FALSE)
Null == Val("null", 0, 0, <<>>, FALSE)
NumV(mant, exp) == Val("num", mant, exp, <<>>, FALSE)
StrV(chars) == Val("str", 0, 0, chars, FALSE)
BoolV(b) == Val("bool", 0, 0, <<>>, b)

RECURSIVE Pow10(_)
Pow10(n) == IF n = 0 THEN 1 ELSE 10 * Pow10(n - 1)

\* a <= b on numbers
NumLeq(a, b) == a.mant * Pow10(b.exp) <= b.mant * Pow10(a.exp)
\* max(a, b): the first of the largest
PyMax(a, b) == IF NumLeq(b, a) THEN a ELSE b
\* the number has no fractional part
IsIntegral(a) == a.mant % Pow10(a.exp) = 0

DigitSeq == <<"0", "1", "2", "3", "4", "5", "6", "7", "8", "9">>
DigitValue(c) == (CHOOSE k \in 1..10 : DigitSeq[k] = c) - 1
IsDigits(s) == s # <<>> /\ \A k \in 1..Len(s) : s[k] \in DigitChars

RECURSIVE ParseNat(_)
ParseNat(s) ==
    IF s = <<>> THEN 0
    ELSE ParseNat(SubSeq(s, 1, Len(s) - 1)) * 10 + DigitValue(s[Len(s)])

Parsed(value) == [ok |-> TRUE, value |-> value]
\* the conversion raised ValueError / the field is invalid
Invalid == [ok |-> FALSE, value |-> Null]

\* v.replace(",", "")
RemoveCommas(s) == SelectSeq(s, LAMBDA c : c # ",")

\* int(s) on a string of digits, commas, dots and letters: decimal digits
\* only.
py_int(s) == IF IsDigits(s) THEN Parsed(NumV(ParseNat(s), 0)) ELSE Invalid

\* float(s) on such a string: digits with at most one dot and a digit on one
\* side of it at least.
py_float(s) ==
    LET dots == {k \in 1..Len(s) : s[k] = "."}
    IN  IF dots = {} THEN py_int(s)
        ELSE IF Cardinality(dots) > 1 THEN Invalid
        ELSE LET digits == SelectSeq(s, LAMBDA c : c # ".")
                 d == CHOOSE k \in dots : TRUE
             IN  IF IsDigits(digits)
                 THEN Parsed(NumV(ParseNat(digits), Len(s) - d))
                 ELSE Invalid

\* The type of a model field, its mode="before" validator and its default.
FieldType(kind, optional, before, default) ==
    [kind |-> kind, optional |-> optional, before |-> before,
     default |-> default]

\* LineItem (rfq_agent.py 41-60), QuotationLineItem
\* (quotation_parsing_agent.py 30-51), InvoiceLineItem
\* (invoice_parsing_module.py 18-36): the numeric fields.
PriceField(g) == IF g = "rfq" THEN "target_price" ELSE "unit_price"
LineItemSchema(g) ==
    [f \in {"quantity", PriceField(g)} |->
        IF g = "invoice"
        THEN FieldType("float", TRUE, "parse_numbers", Null)
        ELSE IF f = "quantity"
        THEN FieldType("int", TRUE, "parse_quantity", Null)
        ELSE FieldType("float", TRUE, "parse_price", Null)]

\* RFQResponse (rfq_agent.py 62-80), QuotationResponse
\* (quotation_parsing_agent.py 53-79), InvoiceResponse
\* (invoice_parsing_module.py 39-65): one of the Optional[str] fields, the
\* Optional[float] total_amount (not a field of RFQResponse),
\* confidence_score and requires_review.
TitleField(g) ==
    CASE g = "rfq" -> "title"
      [] g = "quotation" -> "quotation_number"
      [] g = "ewaybill" -> "eway_bill_number"
      [] OTHER -> "invoice_number"
ResponseFields(g) ==
    {TitleField(g), "confidence_score", "requires_review"} \cup
    (IF g \in {"rfq", "ewaybill"} THEN {} ELSE {"total_amount"})
ResponseSchema(g) ==
    [f \in ResponseFields(g) |->
        CASE f = "confidence_score" ->
                FieldType("float", FALSE, "none", NumV(0, 0))
          [] f = "requires_review" ->
                FieldType("bool", FALSE, "none", BoolV(TRUE))
          [] f = "total_amount" -> FieldType("float", TRUE, "none", Null)
          [] OTHER -> FieldType("str", TRUE, "none", Null)]

\* The mode="before" validators: parse_quantity, parse_target_price /
\* parse_price (a ValueError of int() or float() leaves the validator), and
\* InvoiceLineItem.parse_numbers (any exception gives None).
field_validator(before, v) ==
    IF before = "none" \/ v.t # "str" THEN Parsed(v)
    ELSE IF before = "parse_quantity" THEN py_int(RemoveCommas(v.chars))
    ELSE IF before = "parse_price" THEN py_float(RemoveCommas(v.chars))
    ELSE Parsed(py_float(RemoveCommas(v.chars)).value)

\* pydantic's validation of a value against the field's type (lax mode).
pydantic_validate(type, v) ==
    CASE v.t = "null" -> IF type.optional THEN Parsed(Null) ELSE Invalid
      [] type.kind = "str" -> IF v.t = "str" THEN Parsed(v) ELSE Invalid
      [] type.kind = "bool" -> IF v.t = "bool" THEN Parsed(v) ELSE Invalid
      [] type.kind = "float" ->
            IF v.t = "num" THEN Parsed(v)
            ELSE IF v.t = "str" THEN py_float(v.chars)
            ELSE Invalid
      [] OTHER ->
            IF v.t = "num"
            THEN IF IsIntegral(v)
                 THEN Parsed(NumV(v.mant \div Pow10(v.exp), 0))
                 ELSE Invalid
            ELSE IF v.t = "str" THEN py_int(v.chars)
            ELSE Invalid

\* One field of Model(**reply): the default when the key is absent, else
\* the "before" validator and then the type.
ValidateField(type, v, validated) ==
    IF v.t = "absent" THEN Parsed(type.default)
    ELSE IF ~validated.ok THEN Invalid
    ELSE pydantic_validate(type, validated.value)

\* The value of key f in a dict (Absent when the dict has no such key).
Get(dict, f) == IF f \in DOMAIN dict THEN dict[f] ELSE Absent

ValidateDict(schema, dict) ==
    [f \in DOMAIN schema |->
        ValidateField(schema[f], Get(dict, f),
                      field_validator(schema[f].before, Get(dict, f)))]

\* Model(**reply): ok is FALSE for a ValidationError.
Validate(g, reply) ==
    LET top == ValidateDict(ResponseSchema(g), reply.top)
        items == [k \in 1..Len(reply.items) |->
                     ValidateDict(LineItemSchema(g), reply.items[k])]
    IN  [ok |-> /\ \A f \in DOMAIN top : top[f].ok
                /\ \A k \in 1..Len(items) :
                      \A f \in DOMAIN items[k] : items[k][f].ok,
         top |-> [f \in DOMAIN top |-> top[f].value],
         items |-> [k \in 1..Len(items) |->
                       [f \in DOMAIN items[k] |-> items[k][f].value]]]

\* The dict a generator returns. how (history): the path that built it.
Response(success, error, top, items, how) ==
    [success |-> success, error |-> error, top |-> top, items |-> items,
     how |-> how]
NoResponse == Response(FALSE, "", <<>>, <<>>, "none")

\* _create_error_response (rfq_agent.py 259-268,
\* quotation_parsing_agent.py 240-249) and _error
\* (invoice_parsing_module.py 180-181)
create_error_response(error_message) ==
    Response(FALSE, error_message,
             [f \in {"confidence_score", "requires_review"} |->
                 IF f = "confidence_score" THEN NumV(0, 0) ELSE BoolV(TRUE)],
             <<>>, "error")

\* The keys of a reply dict.
PresentKeys(dict) == {f \in DOMAIN dict : dict[f].t # "absent"}

\* The confidence floor of the fallback record (rfq_agent.py 286).
MinConfidence == NumV(3, 1)

\* The fields of the fallback model after the setattr loop: assignment does
\* not validate, so every key of the reply that is a field of the model is
\* copied as it is.
fallback_fields(schema, top) ==
    [f \in DOMAIN schema |->
        IF f \in PresentKeys(top) THEN top[f] ELSE schema[f].default]

\* _create_fallback_response (rfq_agent.py 270-288,
\* quotation_parsing_agent.py 251-269). max(0.3, confidence_score) raises
\* TypeError when the copied confidence_score is not a number.
create_fallback_response(copied, items) ==
    IF copied["confidence_score"].t # "num"
    THEN [raised |-> TRUE, value |-> NoResponse]
    ELSE [raised |-> FALSE,
          value |-> Response(TRUE, "",
                       [copied EXCEPT
                           !["requires_review"] = BoolV(TRUE),
                           !["confidence_score"] = PyMax(MinConfidence, @)],
                       items, "fallback")]

\* What the remote generate_reply call comes to: it raises (timeout,
\* transport error), or returns text that is no JSON, JSON that is no
\* object, or a JSON object.
ReplyKinds == {"raises", "not_json", "not_dict", "dict"}

\* _parse_and_validate_response (rfq_agent.py 206-227,
\* quotation_parsing_agent.py 187-208) and _parse
\* (invoice_parsing_module.py 149-159) on a JSON object; validated is
\* Validate(g, reply).
parse_validated(g, reply, validated) ==
    IF validated.ok
    THEN [raised |-> FALSE,
          value |-> Response(TRUE, "", validated.top, validated.items,
                             "validated")]
    ELSE IF g = "invoice"
    THEN [raised |-> FALSE,
          value |-> Response(TRUE, "",
                       [f \in PresentKeys(reply.top) |-> reply.top[f]],
                       reply.items, "raw")]
    ELSE create_fallback_response(
             fallback_fields(ResponseSchema(g), reply.top), reply.items)

parse_and_validate_response(g, remote) ==
    IF remote.kind # "dict" THEN [raised |-> TRUE, value |-> NoResponse]
    ELSE parse_validated(g, remote.reply, Validate(g, remote.reply))

\* EWayBillFieldGenerator._parse (ewaybill_parsing_module.py 75-90) and the
\* two assignments after it (lines 69-70). A reply that is a string holding
\* a JSON object (kind "text") is returned as json.loads gives it, without
\* validation; one that is a dict is validated and returned as it is when
\* the validation fails; text that is no JSON raises, and so does the
\* assignment of data["source_file"] to what is no dict.
ewaybill_parse(remote, validated) ==
    IF remote.kind \notin {"text", "dict"}
    THEN [raised |-> TRUE, value |-> NoResponse]
    ELSE IF remote.kind = "dict" /\ validated.ok
    THEN [raised |-> FALSE,
          value |-> Response(TRUE, "", validated.top, <<>>, "validated")]
    ELSE [raised |-> FALSE,
          value |-> Response(TRUE, "",
                       [f \in PresentKeys(remote.reply.top) |->
                           remote.reply.top[f]],
                       remote.reply.items, "raw")]

\* The dict EWayBillFieldGenerator returns for a failure (lines 62, 73).
ewaybill_error(error_message) ==
    Response(FALSE, error_message, <<>>, <<>>, "error")

\* raw_text: the characters of lead followed by fill more characters that
\* are no white space.
RawText(lead, fill) == [lead |-> lead, fill |-> fill]
TextLen(text) == Len(text.lead) + text.fill

\* "not raw_text or not raw_text.strip()" without the strip: only the empty
\* string counts as empty.
generate_sync_is_empty_unstripped(text) == TextLen(text) = 0

\* "not raw_text or not raw_text.strip()" (rfq_agent.py 163)
generate_sync_is_empty(text) == text.fill = 0 /\ Strip(text.lead) = <<>>

\* Texts longer than this are cut (rfq_agent.py 168-169).
MaxPromptChars == 8000
TruncatedMark ==
    <<".", ".", ".", " ", "[", "t", "r", "u", "n", "c", "a", "t", "e", "d",
      "]">>
PromptChars(text) ==
    IF TextLen(text) > MaxPromptChars
    THEN MaxPromptChars + Len(TruncatedMark)
    ELSE TextLen(text)

\* The result of one _generate_sync call, the number of remote calls it
\* made and the length of the text it sent.
SyncResult(raised, value, remote_calls, prompt_chars) ==
    [raised |-> raised, value |-> value, remote_calls |-> remote_calls,
     prompt_chars |-> prompt_chars]

\* The try block of _generate_sync with an except clause that lets the
\* exception of the parsing through.
generate_sync_try_reraising(text, remote, parsed) ==
    SyncResult(remote.kind # "raises" /\ parsed.raised,
               IF remote.kind = "raises"
               THEN create_error_response("remote call failed")
               ELSE IF parsed.raised
               THEN NoResponse
               ELSE parsed.value,
               1, PromptChars(text))

\* The try block of _generate_sync: every exception of the remote call and
\* of the parsing becomes an error response; parsed is
\* parse_and_validate_response(g, remote).
generate_sync_try(text, remote, parsed) ==
    SyncResult(FALSE,
               IF remote.kind = "raises"
               THEN create_error_response("remote call failed")
               ELSE IF parsed.raised
               THEN create_error_response("invalid reply")
               ELSE parsed.value,
               1, PromptChars(text))

\* EWayBillFieldGenerator._generate_sync (ewaybill_parsing_module.py 60-73)
ewaybill_generate_sync(text, remote, parsed) ==
    IF generate_sync_is_empty(text)
    THEN SyncResult(FALSE, ewaybill_error("Empty text"), 0, 0)
    ELSE SyncResult(FALSE,
                    IF remote.kind = "raises"
                    THEN ewaybill_error("remote call failed")
                    ELSE IF parsed.raised
                    THEN ewaybill_error("invalid reply")
                    ELSE parsed.value,
                    1, PromptChars(text))

\* _generate_sync (rfq_agent.py 161-203, quotation_parsing_agent.py
\* 156-185, invoice_parsing_module.py 131-147)
generate_sync(g, text, remote) ==
    IF g = "ewaybill"
    THEN ewaybill_generate_sync(
             text, remote,
             ewaybill_parse(remote, Validate(g, remote.reply)))
    ELSE IF generate_sync_is_empty(text)
    THEN SyncResult(FALSE,
                    create_error_response("Empty or invalid input text"),
                    0, 0)
    ELSE generate_sync_try(text, remote,
                           parse_and_validate_response(g, remote))

\* stop_after_attempt(3) of the retry decorator (rfq_agent.py 143)
MaxAttempts == 3

\* The attempts generate_async makes at most: those of the retry decorator
\* (rfq_agent.py 142, quotation_parsing_agent.py 133,
\* invoice_parsing_module.py 126), one where it has none
\* (ewaybill_parsing_module.py 56).
retry_attempts(g) == IF g = "ewaybill" THEN 1 ELSE MaxAttempts

\* ------------------------------------------------------- sample inputs
\* Longest run of leading characters of a raw text.
MaxLead == 1
Leads == UNION {[1..n -> {" ", "x"}] : n \in 0..MaxLead}
Texts == {RawText(lead, fill) : lead \in Leads,
                                fill \in {0, MaxPromptChars + 1}}

Abc == <<"a", "b", "c">>
OneThousand == <<"1", ",", "0", "0", "0">>
OnePointFive == <<"1", ".", "5">>
TitleSamples == {StrV(Abc), NumV(5, 0)}
AmountSamples == {Absent, NumV(15, 1), StrV(OneThousand), StrV(Abc)}
ConfidenceSamples ==
    {Absent, NumV(9, 1), NumV(1, 1), NumV(15, 1), StrV(Abc), Null}
ReviewSamples == {Absent, BoolV(FALSE)}
QuantitySamples ==
    {Null, NumV(5, 0), NumV(15, 1), StrV(OneThousand), StrV(OnePointFive),
     StrV(Abc)}
PriceSamples == {NumV(15, 1), StrV(OneThousand), StrV(Abc)}

\* The line_items of a reply: none, or one item.
ItemSamples(g) ==
    {<<>>} \cup
    IF g = "ewaybill" THEN {}
    ELSE {<<("quantity" :> q) @@ (PriceField(g) :> p)>> :
             q \in QuantitySamples, p \in PriceSamples}

EmptyReply == [top |-> <<>>, items |-> <<>>]
Replies(g) ==
    {[top |-> (TitleField(g) :> t) @@ ("total_amount" :> a) @@
              ("confidence_score" :> c) @@ ("requires_review" :> r),
      items |-> its] :
        t \in TitleSamples, a \in AmountSamples, c \in ConfidenceSamples,
        r \in ReviewSamples, its \in ItemSamples(g)}
Remote(kind, reply) == [kind |-> kind, reply |-> reply]
NoRemote == Remote("none", EmptyReply)
Remotes(g) ==
    {Remote(kind, EmptyReply) : kind \in ReplyKinds \ {"dict"}} \cup
    {Remote("dict", reply) : reply \in Replies(g)} \cup
    IF g = "ewaybill" THEN {Remote("text", reply) : reply \in Replies(g)}
    ELSE {}

\* ------------------------------------------------- calls on a generator
NoGen ==
    [phase |-> "idle", generator |-> "none", entry |-> "none",
     raw_text |-> RawText(<<>>, 0), attempt |-> 0, remote_calls |-> 0,
     prompt_chars |-> 0, remote |-> NoRemote, result |-> NoResponse,
     raised |-> FALSE]

\* A caller calls generate (entry "generate") or awaits generate_async on a
\* generator (the generators keep no state from one call to the next).
GenerateCall ==
    /\ gen.phase = "idle"
    /\ \E g \in Generators, entry \in {"generate", "generate_async"},
          text \in Texts :
        gen' = [NoGen EXCEPT !.phase = "running", !.generator = g,
                             !.entry = entry, !.raw_text = text,
                             !.attempt = 1]
    /\ UNCHANGED <<storeVars, harvestVars, ex, po, conc, srch, hr, sav, db>>

\* One attempt: a _generate_sync call on the executor. generate returns
\* whatever it came to; under generate_async the retry decorator calls
\* again when the attempt raised and fewer than MaxAttempts were made
\* (rfq_agent.py 142-152), and re-raises after the last.
GenerateAttemptStep(r, remote) ==
    /\ gen.phase = "running"
    /\ IF /\ r.raised
          /\ gen.entry = "generate_async"
          /\ gen.attempt < retry_attempts(gen.generator)
       THEN gen' = [gen EXCEPT !.attempt = @ + 1,
                               !.remote_calls = @ + r.remote_calls]
       ELSE gen' = [gen EXCEPT
                       !.phase = "done",
                       !.remote_calls = @ + r.remote_calls,
                       !.prompt_chars = r.prompt_chars,
                       !.remote = IF r.remote_calls = 0 THEN NoRemote
                                  ELSE remote,
                       !.result = r.value,
                       !.raised = r.raised]
    /\ UNCHANGED <<storeVars, harvestVars, ex, po, conc, srch, hr, sav, db>>

GenerateAttempt ==
    /\ gen.phase = "running"
    /\ \E remote \in Remotes(gen.generator) :
          GenerateAttemptStep(
              generate_sync(gen.generator, gen.raw_text, remote), remote)

GenNext == GenerateCall \/ GenerateAttempt

\* A caller awaits generate_async on one of the later generators (they have
\* no generate).
SiblingCall ==
    /\ gen.phase = "idle"
    /\ \E g \in SiblingGenerators, text \in Texts :
        gen' = [NoGen EXCEPT !.phase = "running", !.generator = g,
                             !.entry = "generate_async", !.raw_text = text,
                             !.attempt = 1]
    /\ UNCHANGED <<storeVars, harvestVars, ex, po, conc, srch, hr, sav, db>>

SiblingNext == SiblingCall \/ GenerateAttempt

\* ------------------------------------------ calls of extract_indent_id
\* Subjects are made of at most MaxTokens of these pieces.
MaxTokens == 4
Tokens ==
    {<<"I", "n", "d", "e", "n", "t">>, <<"i", "d">>, <<"r", "f", "q">>,
     <<" ">>, <<":">>, <<"7">>, <<"1">>, <<"x">>}

RECURSIVE Concat(_)
Concat(pieces) ==
    IF pieces = <<>> THEN <<>> ELSE Head(pieces) \o Concat(Tail(pieces))

Subjects ==
    {Concat(pieces) : pieces \in UNION {[1..n -> Tokens] : n \in 0..MaxTokens}}

NoEx == [phase |-> "idle", subject |-> <<>>, raised |-> FALSE,
         result |-> NoId]

\* extract_indent_id(subject) is called and returns (lines 223-243: no
\* statement of it raises on a string).
ExtractIndentId ==
    /\ ex.phase = "idle"
    /\ \E subject \in Subjects :
          ex' = [phase |-> "done", subject |-> subject, raised |-> FALSE,
                 result |-> extract_indent_id(subject)]
    /\ UNCHANGED <<storeVars, harvestVars, gen, po, conc, srch, hr, sav, db>>

ExtractNext == ExtractIndentId

\* ------------------------------------------------ the PO invoice harvester
\* self.po_patterns, in the declared order.
po_patterns ==
    << \* po\s*#?\s*([A-Za-z0-9-]+)
       <<Lit(<<"p", "o">>), Ws, Opt(<<"#">>), Ws, PoWord>>,
       \* purchase\s*order\s*#?\s*([A-Za-z0-9-]+)
       <<Lit(<<"p", "u", "r", "c", "h", "a", "s", "e">>), Ws,
         Lit(<<"o", "r", "d", "e", "r">>), Ws, Opt(<<"#">>), Ws, PoWord>> >>

\* InvoiceEmailParsingAgent.extract_po_number
extract_po_number(subject) ==
    IF subject = <<>> THEN NoId
    ELSE LET s == Strip(Lower(subject))
             hits == {p \in 1..Len(po_patterns) : ReSearch(po_patterns[p], s).ok}
         IN  IF hits = {} THEN NoId
             ELSE ReSearch(po_patterns[CHOOSE p \in hits :
                                          \A o \in hits : p <= o], s).cap

\* "PO-2024-001 Invoice"
PoSubject ==
    <<"P", "O", "-", "2", "0", "2", "4", "-", "0", "0", "1", " ",
      "I", "n", "v", "o", "i", "c", "e">>

\* The PO numbers process_emails_by_po is called with: the one
\* extract_po_number finds in the subject, and the subject's first word with
\* and without its "PO-".
PoNumbers ==
    {extract_po_number(PoSubject), SubSeq(PoSubject, 1, 11),
     SubSeq(PoSubject, 4, 11)}

\* File names of the message's PDF attachment.
PoFilenames == {"invoice.pdf", "scan.pdf"}

\* by_po_path / po_<n> of a new installation: no file, no summary.json.
NoDisk == [fn \in PoFilenames |-> NoFile]
NoPoSummary == [written |-> FALSE, total_emails |-> 0, invoices |-> <<>>]

\* The InvoiceEmail of the one message of the mailbox.
PoDetails(msg) ==
    [email_id |-> 1, subject |-> msg.subject,
     po_number |-> extract_po_number(msg.subject),
     attachments |-> <<msg.att>>]

\* One element of the 'invoices' list of the summary (lines 252-259).
PoEntry(details, att, saved_path) ==
    [email_subject |-> details.subject, filename |-> att.filename,
     saved_path |-> saved_path, size |-> FileSize(att.content)]

\* The summary process_emails_by_po writes, with the summary it appended to
\* instead of replaced.
po_summary_appending(old, matching, processed) ==
    [written |-> TRUE, total_emails |-> Len(matching),
     invoices |-> old.invoices \o processed]

\* The summary process_emails_by_po writes over summary.json (lines 263-271).
po_summary(old, matching, processed) ==
    [written |-> TRUE, total_emails |-> Len(matching),
     invoices |-> processed]

\* Number of runs of process_emails_by_po.
MaxRuns == 2

NoPo ==
    [pc |-> "idle", runs |-> 0, msg |-> [subject |-> <<>>, att |-> Att("", 0)],
     po_number |-> NoId, conn |-> FALSE, disk |-> NoDisk,
     summary |-> NoPoSummary, matching |-> <<>>, processed |-> <<>>,
     faulted |-> FALSE, ok |-> TRUE,
     after1 |-> [disk |-> NoDisk, summary |-> NoPoSummary],
     saved |-> [calls |-> 0, att |-> Att("", 0), before |-> NoDisk,
                outcome |-> "none", path |-> ""]]

\* The run returns: what the first run left is remembered.
PoReturn(p, ok) ==
    [p EXCEPT !.pc = "idle", !.runs = @ + 1, !.ok = ok,
              !.after1 = IF p.runs = 0
                         THEN [disk |-> p.disk, summary |-> p.summary]
                         ELSE @]

\* process_emails_by_po is called and connects when it has no connection
\* (lines 233-235). The first call fixes the message of the mailbox and the
\* PO number of both runs.
PoCallStep(msg, po_number, connectOk) ==
    LET p == [po EXCEPT !.msg = msg, !.po_number = po_number,
                        !.matching = <<>>, !.processed = <<>>]
    IN  /\ po' = IF ~po.conn /\ ~connectOk
                 THEN PoReturn([p EXCEPT !.faulted = TRUE], FALSE)
                 ELSE [p EXCEPT !.conn = TRUE, !.pc = "filter"]
        /\ UNCHANGED <<storeVars, harvestVars, gen, ex, conc, srch, hr, sav, db>>

PoCall ==
    /\ po.pc = "idle"
    /\ po.runs < MaxRuns
    /\ \E connectOk \in BOOLEAN :
          IF po.runs = 0
          THEN \E fn \in PoFilenames, content \in Contents,
                  po_number \in PoNumbers :
                    PoCallStep([subject |-> PoSubject, att |-> Att(fn, content)],
                               po_number, connectOk)
          ELSE PoCallStep(po.msg, po.po_number, connectOk)

\* The messages of the last 365 days are searched and those whose subject
\* holds the PO number are kept (lines 238-243); a failed search gives no
\* ids, a failed fetch no details.
PoFilter ==
    /\ po.pc = "filter"
    /\ \E searchOk, fetchOk \in BOOLEAN :
          LET email_ids == IF searchOk THEN <<1>> ELSE <<>>
              keep(eid) == fetchOk /\ PoDetails(po.msg).po_number = po.po_number
              fault == ~searchOk \/ ~fetchOk
          IN  /\ searchOk \/ fetchOk
              /\ po' = [po EXCEPT !.matching = SelectSeq(email_ids, keep),
                                  !.faulted = @ \/ fault,
                                  !.pc = "collect"]
    /\ UNCHANGED <<storeVars, harvestVars, gen, ex, conc, srch, hr, sav, db>>

\* save_attachment of the PO harvester (lines 222-230): the file is written
\* unless a file of that name exists.
po_save_attachment(disk, att) ==
    IF disk[att.filename] = NoFile
    THEN [disk EXCEPT ![att.filename] = att.content]
    ELSE disk

\* Every attachment of the matching messages is saved and listed (lines
\* 245-259); a message whose fetch fails is skipped, a failed write ends the
\* run in the handler of line 273.
PoCollect ==
    /\ po.pc = "collect"
    /\ IF po.matching = <<>>
       THEN po' = [po EXCEPT !.pc = "summary"]
       ELSE \E fetchOk, writeOk \in BOOLEAN :
              LET details == PoDetails(po.msg)
                  att == details.attachments[1]
                  writes == po.disk[att.filename] = NoFile
                  saved_path == <<po.po_number, att.filename>>
              IN  /\ fetchOk \/ writeOk
                  /\ ~writes => writeOk
                  /\ po' =
                       IF ~fetchOk
                       THEN [po EXCEPT !.faulted = TRUE, !.pc = "summary"]
                       ELSE IF ~writeOk
                       THEN PoReturn([po EXCEPT !.faulted = TRUE], FALSE)
                       ELSE [po EXCEPT
                               !.disk = po_save_attachment(po.disk, att),
                               !.processed =
                                   <<PoEntry(details, att, saved_path)>>,
                               !.pc = "summary"]
    /\ UNCHANGED <<storeVars, harvestVars, gen, ex, conc, srch, hr, sav, db>>

\* summary.json is written over and the run returns (lines 261-272).
PoWriteSummary ==
    /\ po.pc = "summary"
    /\ \E writeOk \in BOOLEAN :
          po' = IF writeOk
                THEN PoReturn([po EXCEPT !.summary =
                                 po_summary(po.summary, po.matching,
                                            po.processed)], TRUE)
                ELSE PoReturn([po EXCEPT !.faulted = TRUE], FALSE)
    /\ UNCHANGED <<storeVars, harvestVars, gen, ex, conc, srch, hr, sav, db>>

PoNext == PoCall \/ PoFilter \/ PoCollect \/ PoWriteSummary

\* Number of direct calls of save_attachment of the PO harvester.
MaxSaves == 3

\* One call of InvoiceEmailParsingAgent.save_attachment (lines 222-230) for
\* one PO number: the returned path is the attachment's file name in the PO
\* directory, whether or not the file was written; open or write raising
\* leaves the directory as it was.
PoSave ==
    /\ po.pc = "idle"
    /\ po.saved.calls < MaxSaves
    /\ \E fn \in PoFilenames, content \in Contents, writeOk \in BOOLEAN :
          LET att == Att(fn, content)
              writes == po.disk[fn] = NoFile
          IN  /\ ~writes => writeOk
              /\ po' = [po EXCEPT
                          !.disk = IF writeOk THEN po_save_attachment(@, att)
                                   ELSE @,
                          !.saved = [calls |-> @.calls + 1, att |-> att,
                                     before |-> po.disk,
                                     outcome |-> IF writeOk THEN "returned"
                                                 ELSE "raised",
                                     path |-> IF writeOk THEN fn ELSE ""]]
    /\ UNCHANGED <<storeVars, harvestVars, gen, ex, conc, srch, hr, sav, db>>

PoSaveNext == PoSave

\* ------------------------------------------------ the employee-ID harvester
\* "Onboarding EMP-1042"
HrSubject ==
    <<"O", "n", "b", "o", "a", "r", "d", "i", "n", "g", " ", "E", "M", "P",
      "-", "1", "0", "4", "2">>

\* The employee ids process_emails_by_employee_id is called with: two the
\* subject holds, in another case, and one it does not hold.
HrEmployeeIds ==
    {<<"1", "0", "4", "2">>, <<"e", "m", "p", "-", "1", "0", "4", "2">>,
     <<"2", "0", "0", "0">>}

\* File names of the message's attachment.
HrFilenames == {"id.pdf", "offer.pdf"}

\* The files of emp_<id>: the attachment's name, alone or after the
\* timestamp of the second the file was saved in.
NoTs == -1
HrPaths == ({NoTs} \cup (0..MaxClock)) \X HrFilenames

\* by_emp_path / emp_<id> of a new installation.
NoHrDisk == [path \in HrPaths |-> NoFile]
NoHrSummary == [written |-> FALSE, total_emails |-> 0, documents |-> <<>>]

\* HROnboardingEmailAgent.save_attachment (lines 232-242) in second t: a
\* file of the attachment's name makes the path the name after the
\* timestamp; the file at the path is written, whatever it held.
hr_save_attachment(disk, att, t) ==
    LET plain == <<NoTs, att.filename>>
        file_path == IF disk[plain] # NoFile THEN <<t, att.filename>>
                     ELSE plain
    IN  [disk |-> [disk EXCEPT ![file_path] = att.content],
         path |-> file_path]

\* One element of the 'documents' list of the summary (lines 267-274).
HrEntry(msg, saved_path) ==
    [email_subject |-> msg.subject, filename |-> msg.att.filename,
     saved_path |-> saved_path, size |-> FileSize(msg.att.content)]

NoHr ==
    [pc |-> "idle", runs |-> 0, msg |-> [subject |-> <<>>, att |-> Att("", 0)],
     employee_id |-> NoId, conn |-> FALSE, now |-> 0, disk |-> NoHrDisk,
     summary |-> NoHrSummary, matching |-> <<>>, processed |-> <<>>,
     faulted |-> FALSE,
     after1 |-> [disk |-> NoHrDisk, summary |-> NoHrSummary]]

\* The run returns: what the first run left is remembered.
HrReturn(h) ==
    [h EXCEPT !.pc = "idle", !.runs = @ + 1,
              !.after1 = IF h.runs = 0
                         THEN [disk |-> h.disk, summary |-> h.summary]
                         ELSE @]

\* process_emails_by_employee_id is called and connects when it has no
\* connection (lines 245-247). The first call fixes the message of the
\* mailbox and the employee id of both runs.
HrCallStep(msg, employee_id, connectOk) ==
    LET h == [hr EXCEPT !.msg = msg, !.employee_id = employee_id,
                        !.matching = <<>>, !.processed = <<>>]
    IN  /\ hr' = IF ~hr.conn /\ ~connectOk
                 THEN HrReturn([h EXCEPT !.faulted = TRUE])
                 ELSE [h EXCEPT !.conn = TRUE, !.pc = "filter"]
        /\ UNCHANGED <<storeVars, harvestVars, gen, ex, po, conc, srch, sav, db>>

HrCall ==
    /\ hr.pc = "idle"
    /\ hr.runs < MaxRuns
    /\ \E connectOk \in BOOLEAN :
          IF hr.runs = 0
          THEN \E fn \in HrFilenames, content \in Contents,
                  employee_id \in HrEmployeeIds :
                    HrCallStep([subject |-> HrSubject, att |-> Att(fn, content)],
                               employee_id, connectOk)
          ELSE HrCallStep(hr.msg, hr.employee_id, connectOk)

\* The messages of the last 365 days are searched and those whose subject
\* holds the employee id, case ignored, are kept (lines 249-254); a failed
\* search gives no ids, a failed fetch no details.
HrFilter ==
    /\ hr.pc = "filter"
    /\ \E searchOk, fetchOk \in BOOLEAN :
          LET email_ids == IF searchOk THEN <<1>> ELSE <<>>
              keep(eid) ==
                  fetchOk /\ Contains(Lower(hr.msg.subject),
                                      Lower(hr.employee_id))
              fault == ~searchOk \/ ~fetchOk
          IN  /\ searchOk \/ fetchOk
              /\ hr' = [hr EXCEPT !.matching = SelectSeq(email_ids, keep),
                                  !.faulted = @ \/ fault,
                                  !.pc = "collect"]
    /\ UNCHANGED <<storeVars, harvestVars, gen, ex, po, conc, srch, sav, db>>

\* Every attachment of the matching messages is saved, in a second not
\* before the last one, and listed (lines 256-274); a message whose fetch
\* fails is skipped, a failed write ends the run in the handler of line 284.
HrCollect ==
    /\ hr.pc = "collect"
    /\ IF hr.matching = <<>>
       THEN hr' = [hr EXCEPT !.pc = "summary"]
       ELSE \E fetchOk, writeOk \in BOOLEAN, t \in hr.now..MaxClock :
              LET saved == hr_save_attachment(hr.disk, hr.msg.att, t)
              IN  /\ fetchOk \/ writeOk
                  /\ hr' =
                       IF ~fetchOk
                       THEN [hr EXCEPT !.faulted = TRUE, !.pc = "summary"]
                       ELSE IF ~writeOk
                       THEN HrReturn([hr EXCEPT !.faulted = TRUE, !.now = t])
                       ELSE [hr EXCEPT
                               !.now = t,
                               !.disk = saved.disk,
                               !.processed = <<HrEntry(hr.msg, saved.path)>>,
                               !.pc = "summary"]
    /\ UNCHANGED <<storeVars, harvestVars, gen, ex, po, conc, srch, sav, db>>

\* summary.json is written over and the run returns (lines 276-286).
HrWriteSummary ==
    /\ hr.pc = "summary"
    /\ \E writeOk \in BOOLEAN :
          hr' = IF writeOk
                THEN HrReturn([hr EXCEPT !.summary =
                                 [written |-> TRUE,
                                  total_emails |-> Len(hr.matching),
                                  documents |-> hr.processed]])
                ELSE HrReturn([hr EXCEPT !.faulted = TRUE])
    /\ UNCHANGED <<storeVars, harvestVars, gen, ex, po, conc, srch, sav, db>>

HrNext == HrCall \/ HrFilter \/ HrCollect \/ HrWriteSummary

\* ------------------------------------------------------ get_all_indent_ids
\* Line 516: the name of the directory of a bucket.
indent_dir_name(indent_id) == <<"indent_">> \o indent_id

\* Line 859: the name excluded from the listing.
Unassigned == <<"u", "n", "a", "s", "s", "i", "g", "n", "e", "d">>

\* Lines 850-862, over the buckets ds whose directories exist: the entries of
\* the returned list (its order is not represented).
get_all_indent_ids(ds) ==
    LET names == {indent_dir_name(d) : d \in ds}
        replaced(name) == SelectSeq(name, LAMBDA part : part # "indent_")
    IN  {replaced(name) :
            name \in {n \in names : Head(n) = "indent_"
                                    /\ replaced(n) # Unassigned}}

\* ------------------------------------------------------ QuotationDatabase
\* Strings are sequences of characters. Identifiers and file names of the
\* calls; file names with an underscore are what save_attachment itself
\* produces for a second file of one name.
DbIndentIds == {<<"7">>, <<"7", "_", "1">>}
DbFilenames == {<<"q">>, <<"1", "_", "q">>}
DbPairs == DbIndentIds \X DbFilenames

\* The payloads of the calls.
NumData == 2
DbData == 1..NumData
NoData == 0

\* Line 335: f"{indent_id}_{filename}".
quotation_key(indent_id, filename) == indent_id \o <<"_">> \o filename

\* Lines 287-298: the file init_database creates.
EmptyDbFile == [quotations |-> <<>>, total_quotations |-> 0]

\* The absent record (None).
NoRecord == [indent_id |-> <<>>, filename |-> <<>>, data |-> NoData]

\* Lines 334-349: the loaded data with the quotation set under its key and
\* the total recomputed.
save_quotation_update(data, indent_id, filename, quotation_data) ==
    LET quotation_key_ == quotation_key(indent_id, filename)
        quotations ==
            [k \in (DOMAIN data.quotations) \cup {quotation_key_} |->
                IF k = quotation_key_
                THEN [indent_id |-> indent_id, filename |-> filename,
                      data |-> quotation_data]
                ELSE data.quotations[k]]
    IN  [quotations |-> quotations,
         total_quotations |-> Cardinality(DOMAIN quotations)]

\* save_quotation in one piece: load, update, save. writeOk: _save_json_data
\* does not raise.
save_quotation(file, indent_id, filename, quotation_data, writeOk) ==
    IF writeOk
    THEN [file |-> save_quotation_update(file, indent_id, filename,
                                         quotation_data),
          ret |-> TRUE]
    ELSE [file |-> file, ret |-> FALSE]

\* Lines 364-377.
get_quotation(file, indent_id, filename) ==
    IF quotation_key(indent_id, filename) \in DOMAIN file.quotations
    THEN file.quotations[quotation_key(indent_id, filename)]
    ELSE NoRecord

\* Lines 405-425.
delete_quotation(file, indent_id, filename, writeOk) ==
    LET quotation_key_ == quotation_key(indent_id, filename)
        quotations ==
            [k \in (DOMAIN file.quotations) \ {quotation_key_} |->
                file.quotations[k]]
    IN  IF quotation_key_ \in DOMAIN file.quotations /\ writeOk
        THEN [file |-> [quotations |-> quotations,
                        total_quotations |->
                            Cardinality(DOMAIN quotations)],
              ret |-> TRUE]
        ELSE [file |-> file, ret |-> FALSE]

\* The writers of the overlapping calls.
DbWriters == {1, 2}

NoWriter ==
    [pc |-> "idle", indent_id |-> <<>>, filename |-> <<>>, data |-> NoData,
     loaded |-> EmptyDbFile, ret |-> FALSE]

\* History of the last call made in sequence. absent: the pair was not saved,
\* or deleted since, when the call was made; unchanged: the call left the
\* file as it was.
NoOp ==
    [name |-> "none", indent_id |-> <<>>, filename |-> <<>>, ret |-> FALSE,
     got |-> NoRecord, absent |-> TRUE, unchanged |-> TRUE]

\* file: the database file; last: for each pair the payload of its last
\* successful save, as long as no delete of that pair has succeeded since.
NoDb ==
    [file |-> EmptyDbFile, last |-> [pair \in DbPairs |-> NoData],
     op |-> NoOp, calls |-> [w \in DbWriters |-> NoWriter]]

DbOp(name, pair, res, got) ==
    [name |-> name, indent_id |-> pair[1], filename |-> pair[2],
     ret |-> res.ret, got |-> got, absent |-> db.last[pair] = NoData,
     unchanged |-> res.file = db.file]

DbSave ==
    \E pair \in DbPairs, quotation_data \in DbData, writeOk \in BOOLEAN :
        LET res == save_quotation(db.file, pair[1], pair[2], quotation_data,
                                  writeOk)
        IN  /\ db' = [db EXCEPT
                         !.file = res.file,
                         !.last[pair] = IF res.ret THEN quotation_data ELSE @,
                         !.op = DbOp("save", pair, res, NoRecord)]
            /\ UNCHANGED <<storeVars, harvestVars, gen, ex, po, conc, srch,
                           hr, sav>>

DbDelete ==
    \E pair \in DbPairs, writeOk \in BOOLEAN :
        LET res == delete_quotation(db.file, pair[1], pair[2], writeOk)
        IN  /\ db' = [db EXCEPT
                         !.file = res.file,
                         !.last[pair] = IF res.ret THEN NoData ELSE @,
                         !.op = DbOp("delete", pair, res, NoRecord)]
            /\ UNCHANGED <<storeVars, harvestVars, gen, ex, po, conc, srch,
                           hr, sav>>

DbGet ==
    \E pair \in DbPairs :
        /\ db' = [db EXCEPT
                     !.op = DbOp("get", pair, [file |-> db.file, ret |-> TRUE],
                                 get_quotation(db.file, pair[1], pair[2]))]
        /\ UNCHANGED <<storeVars, harvestVars, gen, ex, po, conc, srch, hr,
                       sav>>

DbNext == DbSave \/ DbDelete \/ DbGet

\* Two save_quotation calls for different pairs are made at the same time.
DbRaceBegin ==
    /\ \A w \in DbWriters : db.calls[w].pc = "idle"
    /\ \E pairs \in [DbWriters -> DbPairs], datas \in [DbWriters -> DbData] :
          /\ pairs[1] # pairs[2]
          /\ db' = [db EXCEPT
                       !.calls = [w \in DbWriters |->
                                      [NoWriter EXCEPT
                                          !.pc = "load",
                                          !.indent_id = pairs[w][1],
                                          !.filename = pairs[w][2],
                                          !.data = datas[w]]]]
    /\ UNCHANGED <<storeVars, harvestVars, gen, ex, po, conc, srch, hr, sav>>

\* Line 332 of writer w: data = self._load_json_data().
DbLoad(w) ==
    /\ db.calls[w].pc = "load"
    /\ db' = [db EXCEPT !.calls[w] = [@ EXCEPT !.pc = "save",
                                               !.loaded = db.file]]
    /\ UNCHANGED <<storeVars, harvestVars, gen, ex, po, conc, srch, hr, sav>>

\* Lines 334-362 of writer w: the update of the loaded data and
\* _save_json_data, which replaces the file.
DbStore(w) ==
    /\ db.calls[w].pc = "save"
    /\ \E writeOk \in BOOLEAN :
          LET c == db.calls[w]
              res == save_quotation(c.loaded, c.indent_id, c.filename,
                                    c.data, writeOk)
          IN  db' = [db EXCEPT
                        !.file = IF res.ret THEN res.file ELSE @,
                        !.calls[w] = [@ EXCEPT !.pc = "done",
                                               !.ret = res.ret]]
    /\ UNCHANGED <<storeVars, harvestVars, gen, ex, po, conc, srch, hr, sav>>

DbRaceNext == DbRaceBegin \/ \E w \in DbWriters : DbLoad(w) \/ DbStore(w)

\* ------------------------------------- overlapping save_attachment calls
\* The two calls, for identifier 7 and one file name: call r saves the
\* content r.
Savers == {1, 2}

SavFilenames == {"F.pdf", "G.pdf"}

\* A call before it is made.
NoSaver == [pc |-> "idle", file_path |-> NoPath, ret |-> NoPath]

\* The bucket, the clock, the file name and the two calls.
NoSav ==
    [files |-> <<>>, now |-> 1, filename |-> "",
     calls |-> [r \in Savers |-> NoSaver]]

SavExact == Path(Id7, 0, sav.filename)

\* The two calls are made. The bucket is empty, or already holds a file of
\* that name with the bytes one of the calls is about to save.
SavBegin ==
    /\ \A r \in Savers : sav.calls[r].pc = "idle"
    /\ \E filename \in SavFilenames, content \in Savers \cup {NoFile} :
           sav' = [sav EXCEPT
                      !.filename = filename,
                      !.files = IF content = NoFile THEN @
                                ELSE WriteFile(@, Path(Id7, 0, filename),
                                               content),
                      !.calls = [r \in Savers |->
                                     [NoSaver EXCEPT !.pc = "start"]]]
    /\ UNCHANGED <<storeVars, harvestVars, gen, ex, po, conc, srch, hr, db>>

\* The clock second changes.
SavTick ==
    /\ sav.now < MaxClock
    /\ \E r \in Savers : sav.calls[r].pc \notin {"idle", "done"}
    /\ sav' = [sav EXCEPT !.now = @ + 1]
    /\ UNCHANGED <<storeVars, harvestVars, gen, ex, po, conc, srch, hr, db>>

\* Lines 526-547 of call r: when the exact file exists it is read, and the
\* call returns its path when the digests are equal.
SavCompare(r) ==
    /\ sav.calls[r].pc = "start"
    /\ sav' = [sav EXCEPT
                  !.calls[r] =
                      IF save_attachment_is_duplicate(sav.files, SavExact, r,
                                                      TRUE)
                      THEN [@ EXCEPT !.pc = "done", !.ret = SavExact]
                      ELSE [@ EXCEPT !.pc = "choose"]]
    /\ UNCHANGED <<storeVars, harvestVars, gen, ex, po, conc, srch, hr, db>>

\* Lines 549-559 of call r: the path to write to, from a second look at the
\* exact file and the clock.
SavChoose(r) ==
    /\ sav.calls[r].pc = "choose"
    /\ sav' = [sav EXCEPT
                  !.calls[r] =
                      [@ EXCEPT !.pc = "write",
                                !.file_path =
                                    save_attachment_file_path(
                                        sav.files, Id7, sav.filename,
                                        sav.now)]]
    /\ UNCHANGED <<storeVars, harvestVars, gen, ex, po, conc, srch, hr, db>>

\* Lines 561-566 of call r: the file is opened for writing and written.
SavWrite(r) ==
    /\ sav.calls[r].pc = "write"
    /\ sav' = [sav EXCEPT
                  !.files = WriteFile(@, sav.calls[r].file_path, r),
                  !.calls[r] = [@ EXCEPT !.pc = "done",
                                         !.ret = sav.calls[r].file_path]]
    /\ UNCHANGED <<storeVars, harvestVars, gen, ex, po, conc, srch, hr, db>>

SavStep == \E r \in Savers : SavCompare(r) \/ SavChoose(r) \/ SavWrite(r)

SavNext == SavBegin \/ SavTick \/ SavStep

\* --------------------------- overlapping runs of process_emails_by_indent
\* The two runs, both for indent id 7, on one storage directory.
Runners == {1, 2}

NoRunner ==
    [pc |-> "idle", email_ids |-> {}, todo |-> <<>>, k |-> 0,
     processed_quotes |-> <<>>, produced |-> <<>>]

\* mailbox: the messages of the INBOX; files, summaries: the storage
\* directory; extracts: the attachments whose fields were extracted, one
\* element per extraction.
NoConc ==
    [mailbox |-> {}, files |-> <<>>, summaries |-> <<>>,
     runs |-> [r \in Runners |-> NoRunner], extracts |-> <<>>]

\* The <<message, attachment>> pairs of the loops of lines 678-683 over the
\* messages found, from message m on.
RECURSIVE AttachmentsOf(_, _)
AttachmentsOf(email_ids, m) ==
    IF m > NumMsgs THEN <<>>
    ELSE (IF m \in email_ids
          THEN [a \in 1..Len(Msg(m).attachments) |-> <<m, a>>]
          ELSE <<>>) \o AttachmentsOf(email_ids, m + 1)

\* A message arrives.
ConcDeliver ==
    /\ \E r \in Runners : conc.runs[r].pc # "done"
    /\ \E m \in MsgIds \ conc.mailbox :
          conc' = [conc EXCEPT !.mailbox = @ \cup {m}]
    /\ UNCHANGED <<storeVars, harvestVars, gen, ex, po, srch, hr, sav, db>>

\* Run r is called and searches the mailbox (lines 617-676); it returns at
\* once when it finds no message.
ConcBegin(r) ==
    /\ conc.runs[r].pc = "idle"
    /\ LET email_ids == process_emails_by_indent_found(conc.mailbox, "ok", Id7)
       IN  conc' = [conc EXCEPT !.runs[r] =
                       [@ EXCEPT !.email_ids = email_ids,
                                 !.todo = AttachmentsOf(email_ids, 1),
                                 !.k = 1,
                                 !.pc = IF email_ids = {} THEN "done"
                                        ELSE "loop"]]
    /\ UNCHANGED <<storeVars, harvestVars, gen, ex, po, srch, hr, sav, db>>

\* Run r handles its next attachment (lines 683-713): the entry of the
\* summary on disk is reused, or the attachment is saved and its fields are
\* extracted.
ConcAttachment(r) ==
    /\ conc.runs[r].pc = "loop"
    /\ LET me == conc.runs[r]
           key == me.todo[me.k]
           details == get_email_details(conc.mailbox, "ok", key[1])
           attachment == details.attachments[key[2]]
           existing == is_quote_already_processed(
                           conc.summaries, Id7, details.subject,
                           attachment.filename)
           saved == save_attachment(conc.files, Id7, attachment.filename,
                                    attachment.content, now, TRUE, TRUE)
           processed == process_quote_file(saved.files, saved.ret,
                                           "extracted")
           entry == QuoteEntry(details, attachment.filename, saved.ret,
                               processed.quote_data)
           pcNext == IF me.k = Len(me.todo) THEN "persist" ELSE "loop"
       IN  IF existing.found
           THEN conc' = [conc EXCEPT !.runs[r] =
                            [@ EXCEPT !.processed_quotes =
                                          Append(@, existing.quote),
                                      !.k = @ + 1, !.pc = pcNext]]
           ELSE conc' = [conc EXCEPT
                            !.files = saved.files,
                            !.extracts = IF processed.quote_data.success
                                         THEN Append(@, key) ELSE @,
                            !.runs[r] =
                                [@ EXCEPT !.processed_quotes =
                                              Append(@, entry),
                                          !.produced = Append(@, entry),
                                          !.k = @ + 1, !.pc = pcNext]]
    /\ UNCHANGED <<storeVars, harvestVars, gen, ex, po, srch, hr, sav, db>>

\* Run r writes summary.json over and returns (lines 715-733).
ConcPersist(r) ==
    /\ conc.runs[r].pc = "persist"
    /\ LET me == conc.runs[r]
           summary == Summary(Id7, now, Cardinality(me.email_ids),
                              me.processed_quotes, "absent")
       IN  conc' = [conc EXCEPT
                       !.summaries =
                           [b \in (DOMAIN conc.summaries) \cup {Id7} |->
                               IF b = Id7 THEN summary
                               ELSE conc.summaries[b]],
                       !.runs[r] = [@ EXCEPT !.pc = "done"]]
    /\ UNCHANGED <<storeVars, harvestVars, gen, ex, po, srch, hr, sav, db>>

ConcStep == \E r \in Runners : ConcBegin(r) \/ ConcAttachment(r) \/ ConcPersist(r)

ConcNext == ConcDeliver \/ ConcStep

\* --------------------------------------------- search_emails step by step
\* One imap_connection.search call: it returns ids, returns a status other
\* than 'OK', or raises.
SearchOutcomes == {"ok", "not_ok", "raised"}

\* Number of searches of one call that do not return 'OK'.
MaxSearchFaults == 2

\* The outcomes of the next search after n searches that did not return 'OK'.
OutcomesAfter(n) == IF n < MaxSearchFaults THEN SearchOutcomes ELSE {"ok"}

\* The days_back values search_emails is called with in this model.
DaysBackSamples == {0, ScanDaysBack}

NoSrch ==
    [pc |-> "idle", mailbox |-> {}, days_back |-> 0, k |-> 0, found |-> {},
     issued |-> <<>>, faults |-> 0, result |-> <<>>,
     max_results |-> ScanMaxResults, hdrFail |-> {}, examined |-> <<>>]

\* The ids an issued search adds to found_emails.
Returned(outcome, answer) == IF outcome = "ok" THEN answer.ids ELSE {}

Issued(tier, key, outcome, ids) ==
    [tier |-> tier, key |-> key, outcome |-> outcome, ids |-> ids]

\* The tier that follows tier with the next tier entered whatever was found.
search_emails_next_tier_unconditional(tier, found) ==
    CASE tier = "keywords" -> "since"
      [] tier = "since" -> "all"
      [] OTHER -> "filter"

\* "if not found_emails:" of lines 272 and 285: the tier that follows tier.
search_emails_next_tier(tier, found) ==
    IF found # {} THEN "filter"
    ELSE CASE tier = "keywords" -> "since"
           [] tier = "since" -> "all"
           [] OTHER -> "filter"

\* search_emails is called on a connected agent (lines 245-259).
SearchCall ==
    /\ srch.pc = "idle"
    /\ \E mb \in SUBSET MsgIds, days_back \in DaysBackSamples :
          srch' = [NoSrch EXCEPT !.pc = "keywords", !.mailbox = mb,
                                 !.days_back = days_back, !.k = 1]
    /\ UNCHANGED <<storeVars, harvestVars, gen, ex, po, conc, hr, sav, db>>

\* Lines 261-270: the search of one keyword, in its own try / except.
SearchKeyword ==
    /\ srch.pc = "keywords"
    /\ \E outcome \in OutcomesAfter(srch.faults) :
          LET key == quote_keywords[srch.k]
              ids == Returned(outcome,
                              imap_search_subject(srch.mailbox, "ok", key))
              found == srch.found \cup ids
              last == srch.k = Len(quote_keywords)
          IN  srch' = [srch EXCEPT
                          !.found = found,
                          !.faults = IF outcome = "ok" THEN @ ELSE @ + 1,
                          !.issued = Append(@, Issued("keywords", key,
                                                      outcome, ids)),
                          !.k = IF last THEN 0 ELSE @ + 1,
                          !.pc = IF last THEN search_emails_next_tier("keywords", found)
                                 ELSE "keywords"]
    /\ UNCHANGED <<storeVars, harvestVars, gen, ex, po, conc, hr, sav, db>>

\* Lines 272-282: the search by date.
SearchSince ==
    /\ srch.pc = "since"
    /\ \E outcome \in OutcomesAfter(srch.faults) :
          LET ids == Returned(outcome,
                              imap_search_since(srch.mailbox, "ok",
                                                srch.days_back))
              found == srch.found \cup ids
          IN  srch' = [srch EXCEPT
                          !.found = found,
                          !.faults = IF outcome = "ok" THEN @ ELSE @ + 1,
                          !.issued = Append(@, Issued("since", <<>>,
                                                      outcome, ids)),
                          !.pc = search_emails_next_tier("since", found)]
    /\ UNCHANGED <<storeVars, harvestVars, gen, ex, po, conc, hr, sav, db>>

\* Lines 284-295: the last FallbackRecent messages of 'ALL'.
SearchAll ==
    /\ srch.pc = "all"
    /\ \E outcome \in OutcomesAfter(srch.faults) :
          LET answer == imap_search_all(srch.mailbox, "ok")
              ids == IF outcome = "ok"
                     THEN SetOfSeq(Last(Ascending(answer.ids), FallbackRecent))
                     ELSE {}
              found == srch.found \cup ids
          IN  srch' = [srch EXCEPT
                          !.found = found,
                          !.faults = IF outcome = "ok" THEN @ ELSE @ + 1,
                          !.issued = Append(@, Issued("all", <<>>,
                                                      outcome, ids)),
                          !.pc = search_emails_next_tier("all", found)]
    /\ UNCHANGED <<storeVars, harvestVars, gen, ex, po, conc, hr, sav, db>>

\* Lines 297-358: the candidates are sorted and filtered, and returned.
SearchFilter ==
    /\ srch.pc = "filter"
    /\ srch' = [srch EXCEPT
                   !.result = search_emails_filtered(srch.found,
                                                     ScanMaxResults, {}),
                   !.pc = "done"]
    /\ UNCHANGED <<storeVars, harvestVars, gen, ex, po, conc, hr, sav, db>>

SearchNext ==
    SearchCall \/ SearchKeyword \/ SearchSince \/ SearchAll \/ SearchFilter

\* The max_results values of the calls of the filter on its own.
MaxResultsSamples == {1, 2}

\* Lines 297-352 of one search_emails call whose searches found the ids
\* found_emails: the header fetch raises for the ids of hdrFail. examined
\* (history): the candidates the loop went over.
FilterCall ==
    /\ srch.pc = "idle"
    /\ \E found_emails \in SUBSET FilterIds,
          max_results \in MaxResultsSamples :
          \E hdrFail \in SUBSET found_emails :
              srch' = [srch EXCEPT
                          !.found = found_emails,
                          !.max_results = max_results,
                          !.hdrFail = hdrFail,
                          !.examined =
                              search_emails_candidates(found_emails,
                                                       max_results),
                          !.result =
                              search_emails_filtered(found_emails,
                                                     max_results, hdrFail),
                          !.pc = "done"]
    /\ UNCHANGED <<storeVars, harvestVars, gen, ex, po, conc, hr, sav, db>>

FilterNext == FilterCall


ModulesInit ==
    /\ gen = NoGen
    /\ ex = NoEx
    /\ po = NoPo
    /\ conc = NoConc
    /\ srch = NoSrch
    /\ hr = NoHr
    /\ sav = NoSav
    /\ db = NoDb

HarvestInit ==
    /\ mailbox = {}
    /\ conn = "none"
    /\ summaries = <<>>
    /\ master = NoMaster
    /\ pc = "idle"
    /\ run = NoRun
    /\ scan = NoScan
    /\ result = NoResult
    /\ ended = NotEnded
    /\ calls = 0
    /\ faults = 0

StoreInit ==
    /\ files = <<>>
    /\ dirs = {}
    /\ now = 1
    /\ lastSave = NoSave

Init == StoreInit /\ HarvestInit /\ ModulesInit

Next ==
    \/ ProcessEmailsByIndent
    \/ IndentFetch
    \/ IndentAttachment
    \/ IndentFinish
    \/ ScanAllEmails
    \/ ScanFetch
    \/ ScanAttachment
    \/ ScanFinish
    \/ Deliver
    \/ Expunge
    \/ ConnectionDrops
    \/ DisconnectFromEmail
    \/ Tick

FilingNext ==
    \/ ProcessEmailsByIndent
    \/ IndentFetch
    \/ IndentAttachment
    \/ IndentFinish
    \/ DeliverFiling

\* Runs of process_emails_by_indent on a mailbox of messages with the
\* identifiers 7 and 17.
FilingSpec == Init /\ [][FilingNext]_vars

IndentNext ==
    \/ ProcessEmailsByIndent
    \/ IndentFetch
    \/ IndentAttachment
    \/ IndentFinish
    \/ Deliver
    \/ Expunge
    \/ DisconnectFromEmail

\* The harvester under process_emails_by_indent calls only, on a connection
\* that stays up once made and within one clock second: disk writes and
\* extractions fail, messages come and go, the caller disconnects.
IndentSpec == Init /\ [][IndentNext]_vars

\* The harvester on a mailbox.
Spec == Init /\ [][Next]_vars

\* A direct call of the public method save_attachment, for one identifier and
\* one file name.
SaveAttachment ==
    /\ \E indent_id \in {Id7}, filename \in {"F.pdf"},
          content \in Contents, readOk \in BOOLEAN, writeOk \in BOOLEAN :
        LET res == save_attachment(files, indent_id, filename, content, now,
                                   readOk, writeOk)
        IN  /\ files' = res.files
            /\ dirs' = dirs \cup {indent_id}
            /\ lastSave' = SaveRecord(files, indent_id, filename, content, now,
                                      readOk, writeOk, res)
            /\ UNCHANGED now
    /\ UNCHANGED harvestVars
    /\ UNCHANGED moduleVars

StoreNext == SaveAttachment \/ Tick

\* The attachment store under direct save_attachment calls.
StoreSpec == Init /\ [][StoreNext]_vars

\* A step of the harvest run in progress.
RunStep ==
    \/ IndentFetch \/ IndentAttachment \/ IndentFinish
    \/ ScanFetch \/ ScanAttachment \/ ScanFinish

\* The harvester on a mailbox, a run in progress always taking its next
\* step: the code of a run is sequential and waits for nothing but the
\* calls it makes, each of which returns or raises.
FairSpec == Spec /\ WF_vars(RunStep)

\* The three generators under generate and generate_async calls.
GenSpec == Init /\ [][GenNext]_vars

\* Calls of generate_async on the invoice and e-way bill generators.
SiblingSpec == Init /\ [][SiblingNext]_vars

\* extract_indent_id on the subjects.
ExtractSpec == Init /\ [][ExtractNext]_vars

\* Two runs of process_emails_by_indent for one indent id, interleaved at
\* their steps, while messages arrive.
ConcSpec == Init /\ [][ConcNext]_vars

\* One call of search_emails, search by search.
SearchSpec == Init /\ [][SearchNext]_vars

\* Calls of the relevance filter of search_emails on sets of found ids.
FilterSpec == Init /\ [][FilterNext]_vars

\* Calls on the quotation database, one after the other.
DbSpec == Init /\ [][DbNext]_vars

\* Two overlapping save_quotation calls, statement by statement.
DbRaceSpec == Init /\ [][DbRaceNext]_vars

\* Two save_attachment calls for one file name, statement by statement.
SavSpec == Init /\ [][SavNext]_vars

\* Two runs of the PO invoice harvester on a mailbox of one message.
PoSpec == Init /\ [][PoNext]_vars

\* Calls of save_attachment of the PO harvester on one PO directory.
PoSaveSpec == Init /\ [][PoSaveNext]_vars

\* Two runs of the employee-ID harvester on a mailbox of one message.
HrSpec == Init /\ [][HrNext]_vars

\* ------------------------------------------- claims on the harvest runs
\* Subject and file name of attachment key = <<message id, index>>.
AttSubject(key) == Msg(key[1]).subject
AttFilename(key) == Msg(key[1]).attachments[key[2]].filename

\* The entries of quotes with this subject and file name.
EntriesFor(quotes, subject, filename) ==
    {j \in 1..Len(quotes) : /\ quotes[j].email_subject = subject
                            /\ quotes[j].filename = filename}

\* The quotes of the bucket's summary.json (none when there is no file).
PersistedQuotes(indent_id) ==
    IF indent_id \in DOMAIN summaries THEN summaries[indent_id].quotes
    ELSE <<>>

\* The entries of a list counted with their multiplicity.
BagOfSeq(xs) ==
    [x \in SetOfSeq(xs) |-> Cardinality({i \in 1..Len(xs) : xs[i] = x})]

InIndentRun == pc \in {"indent_loop", "indent_att", "indent_done"}

\* The step that persists and returns the summary of the run in progress.
PersistStep == pc = "indent_done" /\ pc' # "indent_done"

\* The run in progress is a top-level call for the identifier of the call
\* before it, which persisted its summary; the mailbox has not changed
\* since, and neither run failed to fetch a message.
SecondRunOnUnchangedMailbox ==
    /\ run.caller = "top"
    /\ run.prev.mode = "indent"
    /\ run.prev.indent_id = run.indent_id
    /\ run.prev.how = "done"
    /\ ~run.prev.mailboxChanged
    /\ ~run.prev.fetchFailed
    /\ ~run.fetchFailed
    /\ run.indent_id \in DOMAIN summaries

\* C1: process_emails_by_indent run twice for one identifier on an unchanged
\* mailbox persists after the second run the quote entries persisted after
\* the first (compared as a collection with multiplicities, so that neither
\* the order of the messages nor processed_date counts), none duplicated.
C1_SecondRunIdentical ==
    [][(PersistStep /\ SecondRunOnUnchangedMailbox) =>
          BagOfSeq(summaries'[run.indent_id].quotes) =
              BagOfSeq(summaries[run.indent_id].quotes)]_vars

DistinctPairs(quotes) ==
    \A i, j \in 1..Len(quotes) :
        (/\ quotes[i].email_subject = quotes[j].email_subject
         /\ quotes[i].filename = quotes[j].filename) => i = j

\* C6: the persisted summary of an identifier is append-only: every entry
\* persisted after the earlier run (here one without two entries of the same
\* subject and file name) is in the summary the later run persists, whether
\* or not the mailbox changed in between.
C6_AppendOnly ==
    [][(/\ PersistStep
        /\ ~run.fetchFailed
        /\ run.indent_id \in DOMAIN summaries
        /\ DistinctPairs(summaries[run.indent_id].quotes)) =>
          \A k \in 1..Len(summaries[run.indent_id].quotes) :
              \E j \in 1..Len(summaries'[run.indent_id].quotes) :
                  summaries'[run.indent_id].quotes[j] =
                      summaries[run.indent_id].quotes[k]]_vars

\* The last call was a scan_all_emails that ran to its end.
ScanDone ==
    /\ pc = "idle"
    /\ ended.mode = "scan"
    /\ ended.how = "done"
    /\ result.shape = "list"

\* C7: scan_all_emails saves every attachment of every scanned message
\* without identifier under the unknown bucket and returns it as an entry of
\* the run's 'Unknown' summary; none is dropped.
C7_NoIdAttachmentsKept ==
    ScanDone =>
        \A key \in scan.noIdAtts :
            \E i \in 1..Len(result.list) :
                /\ result.list[i].indent_id = UnknownLabel
                /\ \E j \in EntriesFor(result.list[i].quotes,
                                       AttSubject(key), AttFilename(key)) :
                      LET path == result.list[i].quotes[j].saved_path
                      IN  /\ path.bucket = UnknownId
                          /\ Exists(files, path)

\* C8: when the connection cannot be established, both harvest modes return
\* an error result that differs from that of a successful empty run.
C8_ConnectFailureIsError ==
    ended.how = "connect_failed" => result.shape = "error"

\* C9: a run during which the connection dropped (a message could not be
\* fetched) ends as a failure; it returns no summary that omits the messages
\* it could not fetch.
C9_DropIsFailure ==
    (pc = "idle" /\ ended.fetchFailed) => result.shape = "error"

\* The attachment the run is at has no entry in summary.json.
CurrentIsNew ==
    EntriesFor(PersistedQuotes(run.indent_id),
               AttSubject(<<run.cur, run.att>>),
               AttFilename(<<run.cur, run.att>>)) = {}

\* The last entry of the list is the failed entry of attachment key.
LastIsFailedEntry(quotes, key) ==
    /\ quotes # <<>>
    /\ quotes[Len(quotes)].email_subject = AttSubject(key)
    /\ quotes[Len(quotes)].filename = AttFilename(key)
    /\ ~quotes[Len(quotes)].quote_data.success
    /\ quotes[Len(quotes)].quote_data.error # ""

\* C10: when parsing or extraction fails for an attachment, the run goes on
\* with the remaining attachments and messages, the attachment gets an entry
\* with success = false and an error message, and the summary the run
\* persists and returns holds that entry.
C10_FailureIsAnEntry ==
    [][/\ \A outcome \in ExtractOutcomes \ {"extracted"} :
             (/\ pc = "indent_att"
              /\ CurrentIsNew
              /\ IndentAttachmentStep(TRUE, outcome)) =>
                (/\ pc' \in {"indent_att", "indent_loop", "indent_done"}
                 /\ run'.todo = run.todo
                 /\ Len(run'.processed_quotes) = Len(run.processed_quotes) + 1
                 /\ LastIsFailedEntry(run'.processed_quotes,
                                      <<run.cur, run.att>>))
       /\ PersistStep =>
             (/\ summaries'[run.indent_id].quotes = run.processed_quotes
              /\ run.caller = "top" =>
                    (/\ result'.shape = "summary"
                     /\ result'.summary.quotes = run.processed_quotes))]_vars

\* A run returned and persisted a summary in which a failed entry is
\* followed by a successful one.
C10_Witness ==
    /\ pc = "idle"
    /\ ended.how = "done"
    /\ result.shape = "summary"
    /\ summaries[result.summary.indent_id].quotes = result.summary.quotes
    /\ \E k, j \in 1..Len(result.summary.quotes) :
          /\ k < j
          /\ ~result.summary.quotes[k].quote_data.success
          /\ result.summary.quotes[k].quote_data.error # ""
          /\ result.summary.quotes[j].quote_data.success

\* The attachment the scan is at has no entry in the unknown bucket's
\* summary.json.
ScanCurrentIsNew ==
    EntriesFor(PersistedQuotes(UnknownId),
               AttSubject(<<scan.cur, scan.att>>),
               AttFilename(<<scan.cur, scan.att>>)) = {}

\* save_attachment of attachment key into the bucket raises when the disk
\* write fails (the file is not a duplicate of the stored one).
SaveRaises(indent_id, key) ==
    save_attachment(files, indent_id, AttFilename(key),
                    Msg(key[1]).attachments[key[2]].content, now, TRUE,
                    FALSE).outcome = "raised"

\* C11: when the disk write of one attachment fails (save_attachment
\* raises), the run goes on with the remaining attachments and messages and
\* the file gets a failed entry in the list the run persists, in
\* process_emails_by_indent and in scan_all_emails alike.
C11_WriteFailureIsAnEntry ==
    [][/\ (/\ pc = "indent_att"
           /\ CurrentIsNew
           /\ SaveRaises(run.indent_id, <<run.cur, run.att>>)
           /\ IndentAttachmentStep(FALSE, "extracted")) =>
             (/\ pc' \in {"indent_att", "indent_loop", "indent_done"}
              /\ run'.todo = run.todo
              /\ LastIsFailedEntry(run'.processed_quotes,
                                   <<run.cur, run.att>>))
       /\ (/\ pc = "scan_att"
           /\ ScanCurrentIsNew
           /\ SaveRaises(UnknownId, <<scan.cur, scan.att>>)
           /\ ScanAttachmentStep(FALSE, "extracted")) =>
             (/\ pc' \in {"scan_att", "scan_loop"}
              /\ scan'.rest = scan.rest
              /\ LastIsFailedEntry(scan'.unassigned_quotes,
                                   <<scan.cur, scan.att>>))]_vars

\* The file that save_attachment gives for the attachment the run is at is
\* larger than max_file_size.
CurrentIsOversized ==
    LET saved == save_attachment(files, run.indent_id,
                                 AttFilename(<<run.cur, run.att>>),
                                 Msg(run.cur).attachments[run.att].content,
                                 now, TRUE, TRUE)
    IN  FileSize(saved.files[saved.ret]) > max_file_size

TooLarge == "File validation failed: File too large"

\* C16: parse_file_async on a file larger than the maximum size returns
\* success = false with a file-too-large error and invokes no
\* format-specific parser, and the harvest run goes on: the file gets a
\* failed entry and the other attachments of the message and the other
\* messages are still processed.
C16_OversizedFileSkipped ==
    [][\A outcome \in ExtractOutcomes :
          (/\ pc = "indent_att"
           /\ CurrentIsNew
           /\ CurrentIsOversized
           /\ IndentAttachmentStep(TRUE, outcome)) =>
             (/\ \A parserOk \in BOOLEAN :
                    parse_file_async(
                        files',
                        run'.processed_quotes[
                            Len(run'.processed_quotes)].saved_path,
                        parserOk) = ParseResult(FALSE, TooLarge, NoFile, FALSE)
              /\ LastIsFailedEntry(run'.processed_quotes,
                                   <<run.cur, run.att>>)
              /\ run'.processed_quotes[
                     Len(run'.processed_quotes)].quote_data.error = TooLarge
              /\ pc' \in {"indent_att", "indent_loop", "indent_done"}
              /\ run'.todo = run.todo
              /\ run.att < Len(Msg(run.cur).attachments) =>
                    (/\ pc' = "indent_att"
                     /\ run'.cur = run.cur
                     /\ run'.att = run.att + 1))]_vars

\* A run persisted a summary in which the entry of an oversized file is
\* followed by the successful entry of another attachment of the same
\* message.
C16_Witness ==
    /\ pc = "idle"
    /\ ended.how = "done"
    /\ result.shape = "summary"
    /\ summaries[result.summary.indent_id].quotes = result.summary.quotes
    /\ \E k \in 1..(Len(result.summary.quotes) - 1) :
          /\ result.summary.quotes[k].quote_data.error = TooLarge
          /\ result.summary.quotes[k + 1].quote_data.success
          /\ result.summary.quotes[k + 1].sender =
                result.summary.quotes[k].sender
          /\ result.summary.quotes[k + 1].filename #
                result.summary.quotes[k].filename

\* ------------------------------------------------- claims on the store (C3-C5)
\* The canonical path of the last call.
LastCanonical == Path(lastSave.indent_id, 0, lastSave.filename)

\* A step is a save_attachment call that follows another call with the same
\* bytes, identifier and file name, both returning and neither meeting an
\* I/O error.
SameBytesAgain ==
    /\ lastSave.outcome = "returned"
    /\ lastSave'.outcome = "returned"
    /\ ~lastSave.ioError
    /\ ~lastSave'.ioError
    /\ lastSave'.indent_id = lastSave.indent_id
    /\ lastSave'.filename = lastSave.filename
    /\ lastSave'.content = lastSave.content
    /\ (lastSave' # lastSave \/ files' # files)

\* C3: save_attachment called twice with the same bytes, identifier and file
\* name returns on the second call the path of the first call and creates no
\* additional file in the bucket, whatever the bucket held before.
C3_SameBytesSamePath ==
    [][SameBytesAgain =>
          /\ lastSave'.ret = lastSave.ret
          /\ DOMAIN files' = DOMAIN files]_vars

\* The last call returned, and the canonical file existed before it.
LastSaveOnExisting ==
    /\ lastSave.outcome = "returned"
    /\ lastSave.canonBefore # NoFile

\* What C4 says of the last call: the new bytes are in a second,
\* timestamp-prefixed file of the same bucket, that path is returned, and
\* the canonical file still holds what it held.
WrittenBesideCanonical ==
    /\ lastSave.ret = Path(lastSave.indent_id, lastSave.at, lastSave.filename)
    /\ lastSave.ret # LastCanonical
    /\ Exists(files, lastSave.ret)
    /\ files[lastSave.ret] = lastSave.content
    /\ Exists(files, LastCanonical)
    /\ files[LastCanonical] = lastSave.canonBefore

C5_NoContentLost ==
    [][~lastSave'.ioError =>
          \A p \in DOMAIN files :
              \E q \in DOMAIN files' :
                  /\ q.bucket = p.bucket
                  /\ q.fn = p.fn
                  /\ files'[q] = files[p]]_vars

\* ------------------------------------------ claims on the generators
GenDone == gen.phase = "done"

\* The text is empty or consists of white space only.
WhitespaceOnly(text) ==
    /\ text.fill = 0
    /\ \A k \in 1..Len(text.lead) : text.lead[k] \in SpaceChars

\* C12: in the three generators an empty or whitespace-only raw text makes no
\* remote generate call and gives a result with success = false and
\* confidence_score = 0.0.
C12_EmptyTextNoRemoteCall ==
    (GenDone /\ WhitespaceOnly(gen.raw_text)) =>
        /\ gen.remote_calls = 0
        /\ ~gen.raised
        /\ ~gen.result.success
        /\ gen.result.top["confidence_score"] = NumV(0, 0)

\* generate_async has returned for a text of white space.
C12_Witness ==
    /\ GenDone
    /\ gen.entry = "generate_async"
    /\ gen.raw_text.lead # <<>>
    /\ WhitespaceOnly(gen.raw_text)
    /\ ~gen.result.success

\* C13: when the remote call of an attempt raises (timeout, transport
\* error), generate_async calls again, up to MaxAttempts attempts: it gives
\* a failed record for a raising remote call only after the last of them.
C13_TransientFailureRetried ==
    (GenDone /\ gen.entry = "generate_async" /\ gen.remote.kind = "raises") =>
        gen.remote_calls = MaxAttempts

\* The generator's reply was a JSON object that fails schema validation.
InvalidReply ==
    /\ GenDone
    /\ gen.remote.kind = "dict"
    /\ ~Validate(gen.generator, gen.remote.reply).ok

\* Field f of the reply is valid on its own.
FieldValid(g, top, f) ==
    ValidateDict(ResponseSchema(g), top)[f].ok

\* C14: for a reply that is a JSON object failing schema validation, the RFQ
\* and quotation generators return a record with success, requires_review =
\* true and confidence_score >= 0.3 that keeps every field of the reply that
\* is valid on its own, whichever field is invalid.
C14_InvalidReplyGivesRecord ==
    (InvalidReply /\ gen.generator \in {"rfq", "quotation"}) =>
        /\ gen.result.success
        /\ gen.result.top["requires_review"] = BoolV(TRUE)
        /\ NumLeq(MinConfidence, gen.result.top["confidence_score"])
        /\ \A f \in PresentKeys(gen.remote.reply.top) \cap
                       (ResponseFields(gen.generator) \
                            {"requires_review", "confidence_score"}) :
              FieldValid(gen.generator, gen.remote.reply.top, f) =>
                  gen.result.top[f] = gen.remote.reply.top[f]

\* The string is a number written with thousands separators.
WithThousands(v) ==
    /\ v.t = "str"
    /\ \E k \in 1..Len(v.chars) : v.chars[k] = ","
    /\ py_float(RemoveCommas(v.chars)).ok

\* The string is no number, with or without separators.
Malformed(v) == v.t = "str" /\ ~py_float(RemoveCommas(v.chars)).ok

\* What a numeric field comes to according to the schema rule: the number
\* for a string with separators, null for a malformed string.
NormalisedField(schema, dict) ==
    \A f \in {h \in DOMAIN schema : /\ schema[h].kind \in {"int", "float"}
                                     /\ schema[h].optional} :
        /\ WithThousands(Get(dict, f)) =>
              ValidateDict(schema, dict)[f] =
                  py_float(RemoveCommas(Get(dict, f).chars))
        /\ Malformed(Get(dict, f)) =>
              ValidateDict(schema, dict)[f] = Parsed(Null)

\* C15: in the three schemas every (optional) numeric field takes a string
\* with thousands separators as the number it writes, and a malformed string
\* as null, without an error of that field failing the reply's validation.
C15_NumericFieldsNormalised ==
    (GenDone /\ gen.remote.kind = "dict") =>
        /\ NormalisedField(ResponseSchema(gen.generator),
                           gen.remote.reply.top)
        /\ \A k \in 1..Len(gen.remote.reply.items) :
              NormalisedField(LineItemSchema(gen.generator),
                              gen.remote.reply.items[k])

\* ------------------------------------------ claims on extract_indent_id
\* The rules that match the lower-cased subject.
MatchingRules(subject) ==
    {p \in 1..Len(indent_patterns) :
        ReSearch(indent_patterns[p], Lower(subject)).ok}

\* The capture group of rule p on the lower-cased subject.
Capture(p, subject) == ReSearch(indent_patterns[p], Lower(subject)).cap

\* C17: extract_indent_id never raises and returns at most one identifier;
\* an identifier it returns is the capture group of the first rule, in the
\* declared order, that matches the lower-cased subject, and it returns none
\* exactly when the subject is empty or no rule matches.
C17_FirstRuleWins ==
    ex.phase = "done" =>
        /\ ~ex.raised
        /\ \A k \in 1..Len(ex.result) : ex.result[k] \in DigitChars
        /\ (ex.result = NoId) <=>
              (ex.subject = <<>> \/ MatchingRules(ex.subject) = {})
        /\ ex.result # NoId =>
              \E p \in MatchingRules(ex.subject) :
                  /\ \A o \in MatchingRules(ex.subject) : p <= o
                  /\ ex.result = Capture(p, ex.subject)

\* A subject with a capital letter on which two rules match with different
\* capture groups, the later rule at the start of the subject.
C17_Witness ==
    /\ ex.phase = "done"
    /\ ex.subject # Lower(ex.subject)
    /\ \E p, q \in MatchingRules(ex.subject) :
          /\ p < q
          /\ Capture(p, ex.subject) # Capture(q, ex.subject)
          /\ ex.result = Capture(p, ex.subject)
          /\ MatchFrom(indent_patterns[q], 1, Lower(ex.subject), 1, <<>>).ok
          /\ ~MatchFrom(indent_patterns[p], 1, Lower(ex.subject), 1, <<>>).ok

\* --------------------------------------- claims on the PO invoice harvester
\* The files of the PO directory.
PoStoredFiles(disk) == {fn \in PoFilenames : disk[fn] # NoFile}

\* Runs for the PO number of the message in which the mail server and the
\* disk did not fail.
PoScenario ==
    /\ po.pc = "idle"
    /\ po.runs >= 1
    /\ ~po.faulted
    /\ po.po_number = extract_po_number(po.msg.subject)

BothRunsDone == \A r \in Runners : conc.runs[r].pc = "done"

\* The quotes of the summary.json of indent id 7.
ConcPersisted ==
    IF Id7 \in DOMAIN conc.summaries THEN conc.summaries[Id7].quotes ELSE <<>>

\* The persisted summary has an entry for the subject and file name of
\* every entry a run produced.
NoLostUpdate ==
    \A r \in Runners : \A i \in 1..Len(conc.runs[r].produced) :
        \E j \in 1..Len(ConcPersisted) :
            /\ ConcPersisted[j].email_subject =
                   conc.runs[r].produced[i].email_subject
            /\ ConcPersisted[j].filename = conc.runs[r].produced[i].filename

NoDoubleExtraction ==
    \A i, j \in 1..Len(conc.extracts) :
        i # j => conc.extracts[i] # conc.extracts[j]

\* C19: after two runs for the same indent id, overlapping or not, the
\* persisted summary of the id has every entry either run produced and no
\* attachment had its fields extracted twice.
C19_OverlapAsSerialized ==
    BothRunsDone => NoLostUpdate /\ NoDoubleExtraction

\* ------------------------------------------------- claims on search_emails
\* The positions of the issued searches of one tier.
IssuedOf(tier) == {j \in 1..Len(srch.issued) : srch.issued[j].tier = tier}

\* No search before position j returned an id.
NothingBefore(j) == \A i \in 1..(j - 1) : srch.issued[i].ids = {}

TiersOver == srch.pc \in {"filter", "done"}

\* C20: the searches of search_emails are issued tier by tier: the i-th
\* search is that of the i-th keyword whether or not earlier keyword
\* searches failed, all keywords are searched before any other search, the
\* date search is issued once and exactly when no keyword search returned
\* an id, and the search of the most recent messages once, after the date
\* search, and exactly when neither the keyword searches nor the date search
\* returned an id.
C20_TiersInOrder ==
    /\ \A j \in IssuedOf("keywords") :
          j <= Len(quote_keywords) /\ srch.issued[j].key = quote_keywords[j]
    /\ srch.pc \in {"since", "all", "filter", "done"} =>
          IssuedOf("keywords") = 1..Len(quote_keywords)
    /\ \A j \in IssuedOf("since") :
          j = Len(quote_keywords) + 1 /\ NothingBefore(j)
    /\ \A j \in IssuedOf("all") :
          j = Len(quote_keywords) + 2 /\ NothingBefore(j)
    /\ TiersOver =>
          /\ IssuedOf("since") # {} <=> NothingBefore(Len(quote_keywords) + 1)
          /\ IssuedOf("all") # {} <=> NothingBefore(Len(quote_keywords) + 2)

\* A keyword search raised, a later keyword search returned ids, and no
\* other tier was tried.
C20_Witness ==
    /\ srch.pc = "done"
    /\ \E i, j \in IssuedOf("keywords") :
          /\ i < j
          /\ srch.issued[i].outcome = "raised"
          /\ srch.issued[j].ids # {}
    /\ IssuedOf("since") = {}
    /\ IssuedOf("all") = {}

\* -------------------------------------------- claims on master_summary.json
\* The indent_id a bucket's summary carries in the master summary.
BucketLabel(bucket) == IF bucket = UnknownId THEN UnknownLabel ELSE bucket

\* Number of summaries of master_summary.json for the bucket.
Listed(bucket) ==
    Cardinality({k \in 1..Len(master.indent_summaries) :
                    master.indent_summaries[k].indent_id = BucketLabel(bucket)})

\* C21: when scan_all_emails has completed, master_summary.json lists every
\* bucket into which the scan saved or from which it reused a document, the
\* unknown bucket included, exactly once.
C21_MasterListsTouchedBuckets ==
    (pc = "idle" /\ ended.mode = "scan" /\ ended.how = "done") =>
        \A bucket \in scan.touched : Listed(bucket) = 1

\* ------------------------------------------------ claims on how runs end
\* A top-level call has returned.
CallReturned == pc = "idle" /\ ended # NotEnded

\* Done: the run went through and returned a summary (scan_all_emails: the
\* list of summaries).
EndedDone ==
    /\ ended.how \in {"done", "no_emails"}
    /\ result.shape = (IF ended.mode = "scan" THEN "list" ELSE "summary")

\* Aborted: the run was given up and returned an error result.
EndedAborted ==
    /\ ended.how \in {"connect_failed", "aborted"}
    /\ result.shape = "error"

\* C22: every harvest run that has started eventually returns, and a run
\* that has returned is Done with a summary or Aborted with an error result.
C22_RunsEndDoneOrAborted ==
    /\ [](CallReturned => EndedDone \/ EndedAborted)
    /\ (pc # "idle") ~> (pc = "idle")

\* ------------------------------------- claims on replies that are no record
\* generate_async has returned for a reply that is no JSON.
UnparsableReply ==
    GenDone /\ gen.entry = "generate_async" /\ gen.remote.kind = "not_json"

\* generate_async has returned for a JSON object that fails validation.
InvalidReplyAsync == InvalidReply /\ gen.entry = "generate_async"

SecondScanOnUnchangedMailbox ==
    /\ pc # "idle"
    /\ scan.prev.mode = "scan"
    /\ scan.prev.how = "done"
    /\ ~scan.prev.mailboxChanged
    /\ ~scan.prev.fetchFailed
    /\ ~scan.fetchFailed

\* The first scan listed an entry for the attachment among its unassigned
\* quotes (master_summary.json is that of the first scan until the second
\* one ends).
ProcessedByFirstScan(key) ==
    EntriesFor(master.unassigned_quotes, AttSubject(key), AttFilename(key))
        # {}

\* C24: a second scan_all_emails over an unchanged mailbox calls
\* process_quote_file (file parsing and remote extraction) on no attachment
\* of a message without identifier that the first scan processed.
C24_SecondScanReusesUnknown ==
    SecondScanOnUnchangedMailbox =>
        \A key \in scan.extractCalls : ~ProcessedByFirstScan(key)

\* ------------------------------------ claims on the PO harvester's storage
\* save_attachment returned for bytes that differ from the file of that name
\* the PO directory held.
SavedDifferentBytes ==
    /\ po.saved.outcome = "returned"
    /\ po.saved.before[po.saved.att.filename] # NoFile
    /\ po.saved.before[po.saved.att.filename] # po.saved.att.content

\* C25: when save_attachment of the PO harvester returns for bytes that
\* differ from the existing file of the same file name, both versions are
\* kept: the file at the returned path holds the new bytes and some file of
\* the PO directory still holds the old ones.
C25_DifferentBytesBothKept ==
    SavedDifferentBytes =>
        /\ po.disk[po.saved.path] = po.saved.att.content
        /\ \E fn \in PoFilenames :
              po.disk[fn] = po.saved.before[po.saved.att.filename]

\* ------------------------------------- claims on the employee-ID harvester
\* The files of the employee's directory.
HrStoredFiles(disk) == {path \in HrPaths : disk[path] # NoFile}

\* Both runs are over, the mail server and the disk did not fail, and the
\* message's subject holds the employee id.
HrScenario ==
    /\ hr.pc = "idle"
    /\ hr.runs = MaxRuns
    /\ ~hr.faulted
    /\ Contains(Lower(hr.msg.subject), Lower(hr.employee_id))

\* C26: the second of two runs of process_emails_by_employee_id on an
\* unchanged mailbox creates no file in the employee's directory, and
\* save_attachment returns for the same bytes the path it returned in the
\* first run.
C26_SecondRunAddsNoFile ==
    HrScenario =>
        /\ HrStoredFiles(hr.disk) = HrStoredFiles(hr.after1.disk)
        /\ hr.summary.documents[1].saved_path =
               hr.after1.summary.documents[1].saved_path

\* --------------------------------------------- claims on the later generators
\* The classes of outcome of the RFQ generator: the error record with
\* confidence 0.0, the validated record, and the fallback record with
\* requires_review true and a confidence of 0.3 at least.
ErrorOutcome(r) ==
    /\ ~r.success
    /\ Get(r.top, "confidence_score") = NumV(0, 0)
ValidatedOutcome(r) == r.success /\ r.how = "validated"
FallbackOutcome(r) ==
    /\ r.success
    /\ r.how = "fallback"
    /\ Get(r.top, "requires_review") = BoolV(TRUE)
    /\ Get(r.top, "confidence_score").t = "num"
    /\ NumLeq(MinConfidence, Get(r.top, "confidence_score"))

\* C27: a call of generate_async on the invoice or the e-way bill generator
\* runs under the retry wrapper of MaxAttempts attempts and ends in one of the
\* outcome classes of the RFQ generator: the error record with confidence
\* 0.0, which an empty text gives, a validated record, or the fallback record.
C27_SiblingsSameOutcomes ==
    (GenDone /\ gen.generator \in SiblingGenerators) =>
        /\ retry_attempts(gen.generator) = MaxAttempts
        /\ ~gen.raised
        /\ WhitespaceOnly(gen.raw_text) => ErrorOutcome(gen.result)
        /\ \/ ErrorOutcome(gen.result)
           \/ ValidatedOutcome(gen.result)
           \/ FallbackOutcome(gen.result)

\* ---------------------------------------- claims on the confidence score
\* 0.0 <= v <= 1.0
InUnitInterval(v) ==
    /\ v.t = "num"
    /\ NumLeq(NumV(0, 0), v)
    /\ NumLeq(v, NumV(1, 0))

\* C28: every record a generator returns has a confidence_score between 0.0
\* and 1.0 inclusive.
C28_ConfidenceInUnitInterval ==
    (GenDone /\ ~gen.raised) =>
        InUnitInterval(Get(gen.result.top, "confidence_score"))

\* ------------------------------------------------ claims on the filing
\* C29: every file process_emails_by_indent(X) saves into the bucket of X
\* and every entry it persists in the bucket's summary comes from a message
\* whose subject gives the identifier X under extract_indent_id.
C29_OnlyOwnMessagesFiled ==
    /\ \A key \in run.saveCalls : MsgIndentId[key[1]] = run.indent_id
    /\ \A indent_id \in CallIds :
          \A k \in 1..Len(PersistedQuotes(indent_id)) :
              extract_indent_id(PersistedQuotes(indent_id)[k].email_subject)
                  = indent_id

\* Some file of the bucket holds these bytes.
HeldInBucket(fs, bucket, content) ==
    \E path \in DOMAIN fs : path.bucket = bucket /\ fs[path] = content

\* C30: when process_emails_by_indent completes, having fetched every
\* message it found, the bytes of every attachment of every such message are
\* held by some file of the bucket.
C30_EveryAttachmentStored ==
    [][(pc = "indent_done" /\ pc' = "idle" /\ ended'.how = "done"
            /\ ~run.fetchFailed) =>
          \A m \in run.email_ids :
              \A k \in 1..Len(Msg(m).attachments) :
                  HeldInBucket(files', run.indent_id,
                               Msg(m).attachments[k].content)]_vars

\* ------------------------------------- claims on the retry of extractions
\* The entry records an extraction that failed at the remote service.
RemoteFailureEntry(q) ==
    ~q.quote_data.success /\ q.quote_data.error = "remote call failed"

ReturnedSummary ==
    /\ pc = "idle"
    /\ ended.mode = "indent"
    /\ result.shape = "summary"

\* C32: when process_emails_by_indent has returned a summary, the run that
\* found no message included, summary.json of the identifier exists and its
\* total_emails, total_quotes and quotes are those of the returned summary,
\* with total_quotes the length of quotes.
C32_ReturnedSummaryPersisted ==
    ReturnedSummary =>
        /\ ended.indent_id \in DOMAIN summaries
        /\ summaries[ended.indent_id].total_emails =
               result.summary.total_emails
        /\ summaries[ended.indent_id].total_quotes =
               result.summary.total_quotes
        /\ summaries[ended.indent_id].quotes = result.summary.quotes
        /\ result.summary.total_quotes = Len(result.summary.quotes)

\* ------------------------------------------- claims on the 'Unknown' summary
\* Number of the scanned messages whose subject gives no identifier.
ScannedWithoutId ==
    Cardinality({i \in 1..Len(scan.email_ids) :
                    MsgIndentId[scan.email_ids[i]] = NoId})

\* C33: the 'Unknown' summary of a scan that fetched every message it found
\* has as total_emails the number of scanned messages whose subject gives no
\* identifier.
C33_UnknownCountsNoIdMessages ==
    [][(pc = "scan_loop" /\ pc' = "idle" /\ ~scan.fetchFailed) =>
          \A k \in 1..Len(master'.indent_summaries) :
              master'.indent_summaries[k].indent_id = UnknownLabel =>
                  master'.indent_summaries[k].total_emails =
                      ScannedWithoutId]_vars

\* -------------------------------------- claims on the relevance filter
FilterDone == srch.pc = "done"

\* C34: search_emails returns at most max_results ids, however many header
\* fetches raise during the relevance filter.
C34_AtMostMaxResults ==
    FilterDone => Len(srch.result) <= srch.max_results

\* The ids of the sequence are in descending numeric order.
Descending(ids) ==
    \A i, j \in 1..Len(ids) : i < j => ids[i] > ids[j]

\* C35: search_emails examines and returns the candidates in descending
\* numeric order of their sequence numbers, and the candidates it examines
\* are the most recent of the ids found.
C35_MostRecentFirst ==
    FilterDone =>
        /\ Descending(srch.examined)
        /\ Descending(srch.result)
        /\ \A m \in srch.found \ SetOfSeq(srch.examined) :
              \A e \in SetOfSeq(srch.examined) : m < e

\* ----------------------------- claims on overlapping save_attachment calls
BothSaved == \A r \in Savers : sav.calls[r].pc = "done"

\* C36: when two save_attachment calls for one identifier and one file name
\* with different bytes have both returned, whatever the interleaving of
\* their statements, the bucket holds both contents.
C36_BothContentsStored ==
    BothSaved => \A r \in Savers : HeldInBucket(sav.files, Id7, r)

\* -------------------------------------------- claims on QuotationDatabase
BothReturnedTrue ==
    \A w \in DbWriters : db.calls[w].pc = "done" /\ db.calls[w].ret

WritersHaveDistinctKeys ==
    quotation_key(db.calls[1].indent_id, db.calls[1].filename)
        # quotation_key(db.calls[2].indent_id, db.calls[2].filename)

\* C37: when two overlapping save_quotation calls whose keys differ have both
\* returned true, the database holds the record of each call and
\* metadata.total_quotations counts both.
C37_BothSavesTakeEffect ==
    (BothReturnedTrue /\ WritersHaveDistinctKeys) =>
        /\ \A w \in DbWriters :
               get_quotation(db.file, db.calls[w].indent_id,
                             db.calls[w].filename).data = db.calls[w].data
        /\ db.file.total_quotations = Cardinality(DbWriters)

TotalIsCount ==
    db.file.total_quotations = Cardinality(DOMAIN db.file.quotations)

ReturnsLastSaved(pair) ==
    get_quotation(db.file, pair[1], pair[2]).data = db.last[pair]

DeleteOfAbsent == db.op.name = "delete" /\ db.op.absent

\* C38: after any sequence of save_quotation and delete_quotation calls made
\* one after the other, metadata.total_quotations is the number of stored
\* records, get_quotation of a pair saved and not deleted since returns the
\* data of its last save, and a delete_quotation of an absent pair has
\* returned false and left the database as it was.
C38_SequentialCallsConsistent ==
    /\ TotalIsCount
    /\ \A pair \in DbPairs : db.last[pair] # NoData => ReturnsLastSaved(pair)
    /\ DeleteOfAbsent => ~db.op.ret /\ db.op.unchanged

SavedPairs == {pair \in DbPairs : db.last[pair] # NoData}

OwnRecord(pair) ==
    LET record == get_quotation(db.file, pair[1], pair[2])
    IN  record.indent_id = pair[1] /\ record.filename = pair[2]

\* C39: the pairs saved and not deleted since each have a record of their
\* own: there are as many records as such pairs, and the record found for a
\* pair is the one saved for it.
C39_DistinctPairsDistinctRecords ==
    /\ Cardinality(DOMAIN db.file.quotations) = Cardinality(SavedPairs)
    /\ \A pair \in SavedPairs : OwnRecord(pair)

\* -------------------------------------------- claims on get_all_indent_ids
\* C40: get_all_indent_ids never lists the bucket of the documents without
\* an identifier.
C40_UnknownBucketNotListed == UnknownId \notin get_all_indent_ids(dirs)

====
